---- MODULE Spec2Model ----
(***************************************************************************)
(* ESP32-C3 fleet agent: the supervisor state machine (main.c), the OTA    *)
(* pipeline (ota_manager.c) and the Wi-Fi provisioner (wifi_manager.c),    *)
(* together with the bootloader's A/B slot registry they drive.            *)
(*                                                                         *)
(* Two specifications:                                                     *)
(*   Spec     the device: agent_task running on top of the radio driver's  *)
(*            callbacks, the captive-portal handler and the bootloader;    *)
(*   SpecApi  the OTA pipeline alone, its public functions called in any   *)
(*            order by a client.                                           *)
(***************************************************************************)
EXTENDS Integers, Sequences, FiniteSets, TLC

(* ------------------------------------------------------------------ *)
(* Bounds of the model                                                 *)
(* ------------------------------------------------------------------ *)

\* Longest firmware image the server streams, in bytes.
MaxImageLen == 2
\* Most bytes one esp_http_client_read returns (stands for the 4096-byte buffer).
MaxChunk == 2
\* Bytes of a digest (stands for the 32 bytes of SHA-256; hash_to_hex takes
\* the length as its parameter).
HashLen == 2

(* ------------------------------------------------------------------ *)
(* Program constants                                                   *)
(* ------------------------------------------------------------------ *)

OTA_MAX_HASH_LEN == 65
HEALTH_CHECK_HEAP_MIN == 32768
HEARTBEAT_INTERVAL_MS == 30000
OTA_CHECK_INTERVAL_MS == 60000
AP_PORTAL_TIMEOUT_MS == 300000

NULL == "NULL"
Slots == {"ota_0", "ota_1"}
OtherSlot(s) == IF s = "ota_0" THEN "ota_1" ELSE "ota_0"

\* Byte values the firmware stream is made of.
StreamBytes == {18, 171}

\* All byte strings of length 0..n over StreamBytes.
RECURSIVE SeqsUpTo(_)
SeqsUpTo(n) ==
    IF n = 0 THEN {<< >>}
    ELSE LET shorter == SeqsUpTo(n - 1)
         IN  shorter \cup {Append(s, b) : s \in {t \in shorter : Len(t) = n - 1},
                                          b \in StreamBytes}

\* The firmware images the server can stream: those without a repeated
\* neighbouring byte (two images of one length differ in byte order).
Images ==
    {s \in SeqsUpTo(MaxImageLen) : \A i \in 1..(Len(s) - 1) : s[i] # s[i + 1]}

\* The release the fleet server holds for the device: a one-byte artifact
\* (SpecApi streams every image of Images, the empty one included).
Releases == {<<18>>}

(* ------------------------------------------------------------------ *)
(* Characters and strings (sequences of ASCII codes)                   *)
(* ------------------------------------------------------------------ *)

\* tolower / toupper of the C library, on ASCII codes.
tolower(c) == IF c >= 65 /\ c <= 90 THEN c + 32 ELSE c
toupper(c) == IF c >= 97 /\ c <= 122 THEN c - 32 ELSE c

\* The character at 1-based index i of a NUL-terminated string.
CharAt(s, i) == IF i <= Len(s) THEN s[i] ELSE 0

\* One digit of sprintf's "%02x".
HexDigit(n) == IF n < 10 THEN 48 + n ELSE 87 + n

\* hash_to_hex: two lower-case hex digits per byte, high nibble first.
hash_to_hex(hash, hash_len) ==
    [i \in 1..(2 * hash_len) |->
        LET b == hash[(i + 1) \div 2]
        IN  IF i % 2 = 1 THEN HexDigit(b \div 16) ELSE HexDigit(b % 16)]

\* strcasecmp: the difference of the first pair of characters that differ
\* after lower-casing, 0 when the strings end together.
RECURSIVE StrCaseCmpFrom(_, _, _)
StrCaseCmpFrom(a, b, i) ==
    LET c1 == tolower(CharAt(a, i))
        c2 == tolower(CharAt(b, i))
    IN  IF c1 # c2 THEN c1 - c2
        ELSE IF c1 = 0 THEN 0
        ELSE StrCaseCmpFrom(a, b, i + 1)

strcasecmp(a, b) == StrCaseCmpFrom(a, b, 1)

\* strncpy into a zeroed buffer: at most n characters of src.
strncpy(src, n) == SubSeq(src, 1, IF Len(src) < n THEN Len(src) ELSE n)

(* ------------------------------------------------------------------ *)
(* The SHA-256 primitive (mbedtls), as a streaming accumulator          *)
(* ------------------------------------------------------------------ *)

\* mbedtls_sha256_starts: the initial chaining value.
ShaStart == 5381

\* mbedtls_sha256_update with one byte.
ShaStep(h, b) == (h * 33 + b + 1) % 16777216

\* mbedtls_sha256_update with a buffer: byte by byte, in order.
RECURSIVE ShaUpdate(_, _)
ShaUpdate(h, buf) ==
    IF buf = << >> THEN h ELSE ShaUpdate(ShaStep(h, Head(buf)), Tail(buf))

\* mbedtls_sha256_finish: the HashLen-byte digest of the chaining value.
ShaFinish(h) ==
    [k \in 1..HashLen |->
        ((h \div (256 ^ ((k - 1) % 3))) + 17 * ((k - 1) \div 3)) % 256]

\* The digest of a whole byte string.
Sha256(bytes) == ShaFinish(ShaUpdate(ShaStart, bytes))

\* What the server can send as artifact_hash: for every image its digest in
\* lower-case and in upper-case hex, the digest of a wiped hasher, and nothing.
UpperHex(s) == [i \in 1..Len(s) |-> toupper(s[i])]
WipedHash == hash_to_hex(ShaFinish(0), HashLen)
ServerHashes ==
    {hash_to_hex(Sha256(img), HashLen) : img \in Images}
    \cup {UpperHex(hash_to_hex(Sha256(img), HashLen)) : img \in Images}
    \cup {WipedHash, << >>}

\* The artifact_hash values the fleet server announces with an update: the
\* digest of one of its releases, or none.
ReleaseHashes == {hash_to_hex(Sha256(img), HashLen) : img \in Releases} \cup {<< >>}

(* ------------------------------------------------------------------ *)
(* State                                                               *)
(* ------------------------------------------------------------------ *)

VARIABLES
    \* bootloader and flash
    running,            \* the slot the firmware runs from
    boot_part,          \* the slot the bootloader boots next
    img_state,          \* per slot: the bootloader's recorded image state
    flash,              \* per slot: the bytes written through its last writer
    ota_handles,        \* open partition writers: records [h, part], h the
                        \* handle, or LOST once the program holds it no more
    \* ota_manager.c statics
    s_ota_handle, s_update_part, s_sha_ctx, s_download_active,
    \* the task that calls the pipeline and its position
    task, pc, state,
    \* agent_task's locals: update_info, download's result, connect's result,
    \* the portal's result, and what perform_health_check read and returned
    update_info, ret, wr, got_creds, probe,
    \* ota_manager_download's locals
    http_stream,        \* the bytes the server has yet to deliver
    buf,                \* the chunk last read
    \* wifi_manager.c statics, the radio and the credential store
    s_connected, bits, radio, link, nvs_creds, s_portal_http,
    portal_pc,          \* where portal_post_handler is on the HTTP server's task:
                        \* "idle", or "resp" in httpd_resp_send (line 209)
    \* agent_task's timers, as the two differences now - last_heartbeat and
    \* now - last_ota_check, each kept as the boundary it last passed: hb_age
    \* is 0 under HEARTBEAT_INTERVAL_MS and HEARTBEAT_INTERVAL_MS from then
    \* on; ota_age is 0, OTA_LATE_MS or OTA_CHECK_INTERVAL_MS
    hb_age, ota_age,
    lead,               \* the timer that passes its next boundary first
    \* observation only (nothing below reads these to decide a step)
    call,               \* SpecApi: the call last made, with its pre-state
    heard,              \* what the callbacks did since the wifi_manager call in
                        \* progress started the radio (the flags they set) or
                        \* the portal server ("saved": an SSID was persisted)
    downloaded,         \* the bytes the download in progress has read
    fed,                \* the bytes the download in progress has hashed
    ev                  \* what the step just taken returned, reported or issued

bootVars == <<running, boot_part, img_state, flash, ota_handles>>
otaVars  == <<s_ota_handle, s_update_part, s_sha_ctx, s_download_active>>
ctlVars  == <<task, pc, state>>
locVars  == <<update_info, ret, wr, got_creds, probe>>
dlVars   == <<http_stream, buf, downloaded, fed>>
wifiVars == <<s_connected, bits, radio, link, nvs_creds, s_portal_http,
              portal_pc>>
timeVars == <<hb_age, ota_age, lead>>
vars == <<bootVars, otaVars, ctlVars, locVars, dlVars, wifiVars, timeVars,
          call, heard, ev>>

\* A key that is not in the store (a stored C string holds no NUL byte), and
\* the wifi_creds namespace with neither key stored.
NoKey == <<0>>
NoCreds == [ssid |-> NoKey, pass |-> NoKey]

\* A zero-initialised mbedtls_sha256_context, and one after mbedtls_sha256_free.
ShaZeroed == [st |-> "zeroed", h |-> 0]

\* perform_health_check not run yet.
NoProbe == [heap |-> -1, linked |-> FALSE, reach |-> FALSE, pass |-> FALSE]

\* One observable event: a call's result, a report, a bootloader request, a reset.
Ev(e, r) == [e |-> e, r |-> r]
Happened(events, e, r) == \E i \in 1..Len(events) : events[i] = Ev(e, r)
BoolStr(b) == IF b THEN "true" ELSE "false"


(* ------------------------------------------------------------------ *)
(* The esp_ota_* writer API                                            *)
(* ------------------------------------------------------------------ *)

\* Mutant: the update target is always ota_1, whichever slot runs.
esp_ota_get_next_update_partition_Fixed(run, found) ==
    IF found THEN "ota_1" ELSE NULL

\* esp_ota_get_next_update_partition(NULL): the slot after the running one,
\* or NULL when the partition table has none.
esp_ota_get_next_update_partition(run, found) ==
    IF found THEN OtherSlot(run) ELSE NULL

\* The handle of a writer that is open while no variable of the program
\* holds it: no call can name the writer again, and the writers lost on one
\* partition, however many, are one record.
LOST == 0 - 1
Lost(handles) == {[h |-> LOST, part |-> e.part] : e \in handles}

\* esp_ota_begin's handle: a fresh one among those not open.
NewHandle(handles) ==
    CHOOSE h \in 1..(Cardinality(handles) + 1) : \A e \in handles : e.h # h

\* esp_ota_abort / esp_ota_end release the entry of the handle, if open.
CloseHandle(handles, h) == {e \in handles : e.h # h}
IsOpen(handles, h) == \E e \in handles : e.h = h

\* The partition the open writer h writes to.
HandlePart(handles, h) == (CHOOSE e \in handles : e.h = h).part

(* ------------------------------------------------------------------ *)
(* ota_manager.c: verify_hash, apply, abort as functions of the        *)
(* pipeline's state                                                    *)
(* ------------------------------------------------------------------ *)

\* The pipeline's statics and the bootloader state its calls touch.
Pipeline ==
    [handle |-> s_ota_handle, part |-> s_update_part, ctx |-> s_sha_ctx,
     active |-> s_download_active, handles |-> ota_handles,
     boot |-> boot_part, img |-> img_state]

\* A pipeline call as observed: the function, the call made before it, the
\* pipeline it found and the expected hash it was given.
CallOf(op) ==
    [op |-> op, prev |-> call.op, pipe |-> Pipeline, expected |-> << >>]
NoCall ==
    [op |-> "none", prev |-> "none",
     pipe |-> [handle |-> 0, part |-> NULL, ctx |-> ShaZeroed, active |-> FALSE,
               handles |-> {}, boot |-> "ota_0",
               img |-> [s \in Slots |-> "undefined"]],
     expected |-> << >>]

SetPipeline(p) ==
    /\ s_ota_handle' = p.handle
    /\ s_update_part' = p.part
    /\ s_sha_ctx' = p.ctx
    /\ s_download_active' = p.active
    /\ ota_handles' = p.handles
    /\ boot_part' = p.boot
    /\ img_state' = p.img

\* ota_manager_verify_hash: [p: the pipeline afterwards, res: the result].
ota_manager_verify_hash(p, artifact_hash) ==
    IF ~p.active THEN [p |-> p, res |-> FALSE]
    ELSE LET hash     == ShaFinish(p.ctx.h)
             hex_hash == hash_to_hex(hash, HashLen)
         IN  [p   |-> [p EXCEPT !.ctx = ShaZeroed],
              res |-> (strcasecmp(hex_hash, artifact_hash) = 0)]

\* Mutant: a failed apply returns without clearing the active flag.
ota_manager_apply_KeepActive(p, end_ok, set_ok) ==
    IF ~p.active \/ p.part = NULL THEN [p |-> p, res |-> FALSE]
    ELSE LET closed == [p EXCEPT !.handles = CloseHandle(p.handles, p.handle)]
         IN  IF ~(end_ok /\ IsOpen(p.handles, p.handle)) \/ ~set_ok
             THEN [p |-> closed, res |-> FALSE]
             ELSE [p |-> [closed EXCEPT !.boot = p.part,
                                         !.img = [p.img EXCEPT ![p.part] = "new"],
                                         !.active = FALSE],
                   res |-> TRUE]

\* Mutant: the boot partition is set before esp_ota_end is checked, so a
\* failed apply leaves the boot switch armed.
ota_manager_apply_SwitchFirst(p, end_ok, set_ok) ==
    IF ~p.active \/ p.part = NULL THEN [p |-> p, res |-> FALSE]
    ELSE LET armed == [p EXCEPT !.handles = CloseHandle(p.handles, p.handle),
                                !.boot = p.part,
                                !.img = [p.img EXCEPT ![p.part] = "new"],
                                !.active = FALSE]
         IN  [p |-> armed, res |-> end_ok /\ IsOpen(p.handles, p.handle) /\ set_ok]

\* ota_manager_apply; end_ok and set_ok are the results of esp_ota_end and
\* esp_ota_set_boot_partition.  esp_ota_end releases the writer either way.
ota_manager_apply(p, end_ok, set_ok) ==
    IF ~p.active \/ p.part = NULL THEN [p |-> p, res |-> FALSE]
    ELSE LET closed == [p EXCEPT !.handles = CloseHandle(p.handles, p.handle)]
         IN  IF ~(end_ok /\ IsOpen(p.handles, p.handle))
             THEN [p |-> [closed EXCEPT !.active = FALSE], res |-> FALSE]
             ELSE IF ~set_ok
             THEN [p |-> [closed EXCEPT !.active = FALSE], res |-> FALSE]
             ELSE [p |-> [closed EXCEPT !.boot = p.part,
                                         !.img = [p.img EXCEPT ![p.part] = "new"],
                                         !.active = FALSE],
                   res |-> TRUE]

\* Mutant: abort() does nothing.
ota_manager_abort_Noop(p) == p

\* Mutant: abort() releases the writer and forgets the target without
\* looking at the active flag.
ota_manager_abort_Unguarded(p) ==
    [p EXCEPT !.handles = CloseHandle(p.handles, p.handle), !.active = FALSE,
              !.part = NULL]

\* ota_manager_abort.
ota_manager_abort(p) ==
    IF p.active /\ p.handle # 0
    THEN [p EXCEPT !.handles = CloseHandle(p.handles, p.handle), !.active = FALSE]
    ELSE p

\* The age of the last update check from which the check comes due no later
\* than a heartbeat sent now (main.c lines 179 and 185).  It equals
\* HEARTBEAT_INTERVAL_MS, the check's period being twice the heartbeat's:
\* two running timers pass hb_age's boundary and this one in the order of
\* their ages.
OTA_LATE_MS == OTA_CHECK_INTERVAL_MS - HEARTBEAT_INTERVAL_MS

\* The two timers as one value.  last_heartbeat and last_ota_check are set at
\* different moments, so the ages differ by an amount that stays the same
\* while both run; lead keeps the order that amount decides: "hb" when the
\* heartbeat's age passes its next boundary before the check's, "ota" when
\* the check's passes first (with equal waits, one after the other).
Clock == [hb |-> hb_age, ota |-> ota_age, lead |-> lead]
SetClock(c) ==
    /\ hb_age' = c.hb
    /\ ota_age' = c.ota
    /\ lead' = c.lead

\* Both timers as agent_task starts them (last_heartbeat = last_ota_check = 0).
ClockStart == [hb |-> 0, ota |-> 0, lead |-> "ota"]

\* The clock once the next boundary is passed.
Aged(c) ==
    IF c.hb < HEARTBEAT_INTERVAL_MS /\ c.lead = "hb"
    THEN [hb |-> HEARTBEAT_INTERVAL_MS, ota |-> c.ota,
          lead |-> IF c.ota < OTA_CHECK_INTERVAL_MS THEN "ota" ELSE "hb"]
    ELSE IF c.ota < OTA_CHECK_INTERVAL_MS
    THEN LET o == IF c.ota < OTA_LATE_MS THEN OTA_LATE_MS
                  ELSE OTA_CHECK_INTERVAL_MS
         IN  [hb |-> c.hb, ota |-> o,
              lead |-> IF c.hb < HEARTBEAT_INTERVAL_MS
                          \/ o >= OTA_CHECK_INTERVAL_MS THEN "hb" ELSE "ota"]
    ELSE c

\* The clocks a blocked task can wake to: no boundary passed, or up to all
\* three of them (xTaskGetTickCount at line 176 reads whatever time the
\* blocking calls took).
Elapsed(c) == {c, Aged(c), Aged(Aged(c)), Aged(Aged(Aged(c)))}
TimePasses == \E c \in Elapsed(Clock) : SetClock(c)

\* The clocks after a wait of ms ran out: a wait as long as the check's period
\* leaves both timers due; one as long as the heartbeat's leaves the
\* heartbeat due and the check one boundary older at least; a shorter one
\* may pass no boundary.
TimedOut(c, ms) ==
    IF ms >= OTA_CHECK_INTERVAL_MS THEN {Aged(Aged(Aged(c)))}
    ELSE IF ms >= HEARTBEAT_INTERVAL_MS
    THEN {d \in Elapsed(c) : /\ d.hb = HEARTBEAT_INTERVAL_MS
                             /\ d.ota > c.ota \/ c.ota = OTA_CHECK_INTERVAL_MS}
    ELSE Elapsed(c)

\* A call that blocks its caller (an HTTP request, a delay, the stop of a
\* server): agent_task's clock moves on while it is in one; the clients of
\* the other specifications keep no clock.
Blocked == IF task = "agent_task" THEN TimePasses ELSE UNCHANGED timeVars

(* ------------------------------------------------------------------ *)
(* ota_manager_download, step by step                                  *)
(* ------------------------------------------------------------------ *)

DlPcs == {"dl_entry", "dl_open", "dl_read", "dl_write", "dl_hash"}

\* download returns r to its caller; its locals go out of scope.
DlReturn(r) ==
    /\ ret' = r
    /\ pc' = IF task = "client" THEN "client" ELSE "dl_ret"
    /\ ev' = <<Ev("download", r)>>
    /\ http_stream' = << >>
    /\ buf' = << >>
    /\ downloaded' = << >>
    /\ fed' = << >>

\* The failure exits after the session was opened: esp_ota_abort, clear the flag.
DlFail ==
    /\ ota_handles' = CloseHandle(ota_handles, s_ota_handle)
    /\ s_download_active' = FALSE
    /\ DlReturn("FAIL")

\* Lines 170-191: pick the target, open the writer, start the hasher.
\* The handle of every writer still open is overwritten in s_ota_handle
\* (line 182) and lost.
DlEntry ==
    /\ pc = "dl_entry"
    /\ \E found \in BOOLEAN, begin_ok \in BOOLEAN :
        LET np == esp_ota_get_next_update_partition(running, found)
        IN  /\ s_update_part' = np
            /\ IF np = NULL \/ ~begin_ok
               THEN /\ DlReturn("FAIL")
                    /\ UNCHANGED <<flash, ota_handles, s_ota_handle, s_sha_ctx,
                                   s_download_active>>
               ELSE /\ s_ota_handle' = NewHandle(ota_handles)
                    /\ ota_handles' = Lost(ota_handles)
                                          \cup {[h |-> s_ota_handle', part |-> np]}
                    /\ flash' = [flash EXCEPT ![np] = << >>]
                    /\ s_sha_ctx' = [st |-> "started", h |-> ShaStart]
                    /\ s_download_active' = TRUE
                    /\ pc' = "dl_open"
                    /\ ev' = << >>
                    /\ UNCHANGED <<ret, dlVars>>
    /\ UNCHANGED <<running, boot_part, img_state, task, state, update_info, wr,
                   got_creds, probe, wifiVars, timeVars, call, heard>>

\* What the URL of the download delivers: any image to the client of SpecApi,
\* one of the server's releases to the device.
Served == IF task = "client" THEN Images ELSE Releases

\* Lines 194-221: open the HTTP stream and allocate the chunk buffer.
DlOpen ==
    /\ pc = "dl_open"
    /\ \E open_ok \in BOOLEAN, malloc_ok \in BOOLEAN, img \in Served :
        IF open_ok /\ malloc_ok
        THEN /\ http_stream' = img
             /\ pc' = "dl_read"
             /\ ev' = << >>
             /\ UNCHANGED <<ota_handles, s_download_active, ret, buf, downloaded, fed>>
        ELSE DlFail
    /\ UNCHANGED <<running, boot_part, img_state, flash, s_ota_handle,
                   s_update_part, s_sha_ctx, task, state, update_info, wr,
                   got_creds, probe, wifiVars, call, heard>>
    /\ Blocked

\* Line 223: one esp_http_client_read.  n > 0 bytes of the stream, 0 at its
\* end, or a negative error code at any time; the loop ends on n <= 0 and
\* lines 243-248 return OK.
DlRead ==
    /\ pc = "dl_read"
    /\ \E n \in (-1)..MaxChunk :
        /\ n <= Len(http_stream)
        /\ n = 0 => http_stream = << >>
        /\ IF n > 0
           THEN /\ buf' = SubSeq(http_stream, 1, n)
                /\ http_stream' = SubSeq(http_stream, n + 1, Len(http_stream))
                /\ downloaded' = downloaded \o buf'
                /\ pc' = "dl_write"
                /\ ev' = << >>
                /\ UNCHANGED <<ret, fed>>
           ELSE DlReturn("OK")
    /\ UNCHANGED <<bootVars, otaVars, task, state, update_info, wr, got_creds,
                   probe, wifiVars, call, heard>>
    /\ Blocked

\* Mutant: the chunk is hashed but a write that fails is not noticed, so the
\* loop goes on with the chunk missing from the partition.
DlWrite_IgnoreError ==
    /\ pc = "dl_write"
    /\ \E write_ok \in BOOLEAN :
        flash' = IF write_ok
                 THEN [flash EXCEPT ![HandlePart(ota_handles, s_ota_handle)] = @ \o buf]
                 ELSE flash
    /\ pc' = "dl_hash"
    /\ ev' = << >>
    /\ UNCHANGED <<running, boot_part, img_state, ota_handles, otaVars, task,
                   state, locVars, dlVars, wifiVars, timeVars, call, heard>>

\* Lines 224-232: esp_ota_write of the chunk through the open writer.
DlWrite ==
    /\ pc = "dl_write"
    /\ \E write_ok \in BOOLEAN :
        IF write_ok
        THEN /\ flash' = [flash EXCEPT ![HandlePart(ota_handles, s_ota_handle)] = @ \o buf]
             /\ pc' = "dl_hash"
             /\ ev' = << >>
             /\ UNCHANGED <<ota_handles, s_download_active, ret, dlVars>>
        ELSE /\ DlFail
             /\ UNCHANGED flash
    /\ UNCHANGED <<running, boot_part, img_state, s_ota_handle, s_update_part,
                   s_sha_ctx, task, state, update_info, wr, got_creds, probe,
                   wifiVars, timeVars, call, heard>>

\* Line 235: mbedtls_sha256_update with the chunk.
DlHash ==
    /\ pc = "dl_hash"
    /\ s_sha_ctx' = [s_sha_ctx EXCEPT !.h = ShaUpdate(@, buf)]
    /\ fed' = fed \o buf
    /\ pc' = "dl_read"
    /\ ev' = << >>
    /\ UNCHANGED <<bootVars, s_ota_handle, s_update_part, s_download_active,
                   task, state, locVars, http_stream, buf, downloaded,
                   wifiVars, timeVars, call, heard>>

Download == DlEntry \/ DlOpen \/ DlRead \/ DlWrite \/ DlHash

(* ------------------------------------------------------------------ *)
(* SpecApi: a client calling the pipeline's functions in any order      *)
(* ------------------------------------------------------------------ *)

ApiUnchanged ==
    UNCHANGED <<running, flash, task, state, update_info, wr, got_creds, probe,
                dlVars, wifiVars, timeVars, heard>>

\* download(info): the client enters ota_manager_download.
ApiDownload ==
    /\ task = "client" /\ pc = "client"
    /\ call' = CallOf("download")
    /\ pc' = "dl_entry"
    /\ ev' = << >>
    /\ UNCHANGED <<boot_part, img_state, ota_handles, otaVars, ret>>
    /\ ApiUnchanged

\* verify_hash(info), with any expected hash.
ApiVerify ==
    /\ task = "client" /\ pc = "client"
    /\ \E h \in ServerHashes :
        LET r == ota_manager_verify_hash(Pipeline, h)
        IN  /\ call' = [CallOf("verify") EXCEPT !.expected = h]
            /\ SetPipeline(r.p)
            /\ ret' = BoolStr(r.res)
            /\ ev' = <<Ev("verify", BoolStr(r.res))>>
    /\ UNCHANGED pc
    /\ ApiUnchanged

\* apply().
ApiApply ==
    /\ task = "client" /\ pc = "client"
    /\ \E end_ok \in BOOLEAN, set_ok \in BOOLEAN :
        LET r == ota_manager_apply(Pipeline, end_ok, set_ok)
        IN  /\ SetPipeline(r.p)
            /\ ret' = BoolStr(r.res)
            /\ ev' = <<Ev("apply", BoolStr(r.res))>>
    /\ call' = CallOf("apply")
    /\ UNCHANGED pc
    /\ ApiUnchanged

\* abort().
ApiAbort ==
    /\ task = "client" /\ pc = "client"
    /\ SetPipeline(ota_manager_abort(Pipeline))
    /\ call' = CallOf("abort")
    /\ ret' = "void"
    /\ ev' = <<Ev("abort", "void")>>
    /\ UNCHANGED pc
    /\ ApiUnchanged

\* The state after app_main's initialisation, before the first call.
InitCommon ==
    /\ running = "ota_0"
    /\ boot_part = running
    /\ img_state = [s \in Slots |-> "undefined"]
    /\ flash = [s \in Slots |-> << >>]
    /\ ota_handles = {}
    /\ s_ota_handle = 0
    /\ s_update_part = NULL
    /\ s_sha_ctx = ShaZeroed
    /\ s_download_active = FALSE
    /\ update_info = [artifact_hash |-> << >>]
    /\ ret = "none"
    /\ wr = "none"
    /\ got_creds = FALSE
    /\ probe = NoProbe
    /\ http_stream = << >>
    /\ buf = << >>
    /\ s_connected = FALSE
    /\ bits = {}
    /\ radio = "off"
    /\ link = "down"
    /\ nvs_creds = NoCreds
    /\ s_portal_http = FALSE
    /\ portal_pc = "idle"
    /\ heard = {}
    /\ hb_age = 0
    /\ ota_age = 0
    /\ lead = "ota"
    /\ call = NoCall
    /\ downloaded = << >>
    /\ fed = << >>
    /\ ev = << >>

InitApi ==
    /\ InitCommon
    /\ task = "client"
    /\ pc = "client"
    /\ state = "BOOT"

NextApi == ApiDownload \/ ApiVerify \/ ApiApply \/ ApiAbort \/ Download

SpecApi == InitApi /\ [][NextApi]_vars

(* ------------------------------------------------------------------ *)
(* The bootloader and device resets                                    *)
(* ------------------------------------------------------------------ *)

\* What the bootloader runs at reset: a "new" image is booted once as
\* pending-verify; an image still pending-verify at reset was never marked
\* valid, so it is marked aborted and the other slot runs.
BootSelect(bp, img) ==
    IF img[bp] = "new"
    THEN [running |-> bp, boot |-> bp, img |-> [img EXCEPT ![bp] = "pending_verify"]]
    ELSE IF img[bp] = "pending_verify"
    THEN [running |-> OtherSlot(bp), boot |-> OtherSlot(bp),
          img |-> [img EXCEPT ![bp] = "aborted"]]
    ELSE [running |-> bp, boot |-> bp, img |-> img]

\* A reset: the bootloader picks the slot, RAM starts over and app_main runs
\* its initialisation, after which agent_task starts in STATE_BOOT.  Flash and
\* the bootloader's registry survive; the credential store survives unless
\* nvs_flash_init reports no free page or a new version, on which app_main
\* erases it (main.c lines 316-322).
Reset(bp, img) ==
    LET sel == BootSelect(bp, img)
    IN  /\ running' = sel.running
        /\ boot_part' = sel.boot
        /\ img_state' = sel.img
        /\ ota_handles' = {}
        /\ s_ota_handle' = 0
        /\ s_update_part' = NULL
        /\ s_sha_ctx' = ShaZeroed
        /\ s_download_active' = FALSE
        /\ pc' = "loop"
        /\ state' = "BOOT"
        /\ update_info' = [artifact_hash |-> << >>]
        /\ ret' = "none"
        /\ wr' = "none"
        /\ got_creds' = FALSE
        /\ probe' = NoProbe
        /\ http_stream' = << >>
        /\ buf' = << >>
        /\ downloaded' = << >>
        /\ fed' = << >>
        /\ s_connected' = FALSE
        /\ bits' = {}
        /\ radio' = "off"
        /\ link' = "down"
        /\ s_portal_http' = FALSE
        /\ portal_pc' = "idle"
        /\ heard' = {}
        /\ SetClock(ClockStart)
        /\ \E nvs_erased \in BOOLEAN :
               nvs_creds' = IF nvs_erased THEN NoCreds ELSE nvs_creds
        /\ UNCHANGED <<flash, task, call>>

\* ESP_ERROR_CHECK on a failed driver call: abort(), the panic handler resets.
Panic ==
    /\ Reset(boot_part, img_state)
    /\ ev' = <<Ev("reset", "abort")>>

\* Mutant: the running image is marked invalid but the boot slot is not
\* switched before the reset.
RollbackAndReboot_SameSlot ==
    Reset(running, [img_state EXCEPT ![running] = "invalid"])

\* esp_ota_mark_app_invalid_rollback_and_reboot: the running image is marked
\* invalid, the other slot becomes the boot slot, the device resets.
RollbackAndReboot ==
    Reset(OtherSlot(running), [img_state EXCEPT ![running] = "invalid"])

\* esp_ota_mark_app_valid_cancel_rollback: the running image is marked valid.
MarkValid(img, run) == [img EXCEPT ![run] = "valid"]

(* ------------------------------------------------------------------ *)
(* wifi_manager.c                                                      *)
(* ------------------------------------------------------------------ *)

WIFI_CONNECTED_BIT == "WIFI_CONNECTED_BIT"
WIFI_FAIL_BIT == "WIFI_FAIL_BIT"
PORTAL_DONE_BIT == "PORTAL_DONE_BIT"

\* C strings are sequences of byte codes 1..255.  The printable ASCII
\* characters in code order, 32 (space) to 95 and 97 to 126 (tilde), are
\* there to write string literals as bytes.
Ascii32 ==
    " !\"#$%&'()*+,-./0123456789:;<=>?@ABCDEFGHIJKLMNOPQRSTUVWXYZ[\\]^_"
Ascii97 == "abcdefghijklmnopqrstuvwxyz{|}~"

\* The code of a character of a literal, and a literal as bytes.
Ord(ch) ==
    IF \E i \in 1..Len(Ascii32) : SubSeq(Ascii32, i, i) = ch
    THEN 31 + CHOOSE i \in 1..Len(Ascii32) : SubSeq(Ascii32, i, i) = ch
    ELSE 96 + CHOOSE i \in 1..Len(Ascii97) : SubSeq(Ascii97, i, i) = ch
Codes(str) == [i \in 1..Len(str) |-> Ord(SubSeq(str, i, i))]

\* n copies of a byte.
Rep(c, n) == [i \in 1..n |-> c]

\* What a client of the captive portal can submit to the running device: an
\* empty or a usable SSID, with a password (SpecPortal varies the password).
Ssids == {<< >>, Codes("home")}
Passwords == {Codes("abc")}

\* The sizes of the SSID and password buffers of wifi_manager_connect (lines
\* 246-247) and of portal_post_handler (lines 196-197).
SSID_BUF == 33
PASS_BUF == 65

\* nvs_get_str into a buffer of buf_len bytes that the caller has zeroed: the
\* key must exist and its string fit with the terminator.
nvs_get_str(value, buf_len) ==
    IF value = NoKey \/ Len(value) + 1 > buf_len
    THEN [ok |-> FALSE, str |-> << >>]
    ELSE [ok |-> TRUE, str |-> value]

\* nvs_load_credentials (lines 115-126) as wifi_manager_connect calls it
\* (lines 246-249): what it returns and leaves in the caller's buffers.
\* nvs_ok is whether the namespace opens.
LoadCredentials(store, nvs_ok) ==
    LET e1 == nvs_get_str(store.ssid, SSID_BUF)
        e2 == nvs_get_str(store.pass, PASS_BUF)
    IN  IF ~nvs_ok THEN [found |-> FALSE, ssid |-> << >>, pass |-> << >>]
        ELSE [found |-> e1.ok /\ e2.ok /\ Len(e1.str) > 0,
              ssid |-> e1.str, pass |-> e2.str]

\* The value nvs_load_credentials returns.
nvs_load_credentials(store, nvs_ok) == LoadCredentials(store, nvs_ok).found

\* The store holds a pair that nvs_load_credentials returns when it can open
\* the namespace.
HasCredentials(store) == nvs_load_credentials(store, TRUE)

\* What a write to the namespace meets: whether nvs_open succeeds and, for
\* each key, whether the call on it and nvs_commit leave the change in the
\* store.  nvs_save_credentials reads none of these results but that of
\* nvs_open (lines 131-137), wifi_manager_erase_credentials likewise (lines
\* 379-382).
NvsOutcomes ==
    {w \in [open : BOOLEAN, ssid : BOOLEAN, pass : BOOLEAN] :
        w.open \/ (~w.ssid /\ ~w.pass)}
Written == [open |-> TRUE, ssid |-> TRUE, pass |-> TRUE]
NotOpened == [open |-> FALSE, ssid |-> FALSE, pass |-> FALSE]

\* nvs_save_credentials (lines 128-140): nvs_set_str on the SSID key, then on
\* the password key, then nvs_commit; when the namespace does not open,
\* nothing is written.
nvs_save_credentials(store, ssid, pass, w) ==
    [ssid |-> IF w.open /\ w.ssid THEN ssid ELSE store.ssid,
     pass |-> IF w.open /\ w.pass THEN pass ELSE store.pass]

\* wifi_manager_erase_credentials (lines 376-385): nvs_erase_all and
\* nvs_commit when the namespace opens.
wifi_manager_erase_credentials(store, w) ==
    [ssid |-> IF w.open /\ w.ssid THEN NoKey ELSE store.ssid,
     pass |-> IF w.open /\ w.pass THEN NoKey ELSE store.pass]

\* esp_wifi_stop: the radio goes off; an associated station is disconnected,
\* which the event handler sees as WIFI_EVENT_STA_DISCONNECTED.
WifiStop ==
    /\ radio' = "off"
    /\ link' = "down"
    /\ s_connected' = IF link = "up" THEN FALSE ELSE s_connected

BitsAfterStop(b) == IF link = "up" THEN b \cup {WIFI_FAIL_BIT} ELSE b

\* wifi_manager_connect has called esp_wifi_start and has not yet returned.
InConnectWait == pc \in {"wc_clear", "wc_wait"}

\* wifi_event_handler, IP_EVENT_STA_GOT_IP (lines 106-111).
GotIp ==
    /\ radio = "sta" /\ link = "connecting"
    /\ link' = "up"
    /\ s_connected' = TRUE
    /\ bits' = bits \cup {WIFI_CONNECTED_BIT}
    /\ heard' = IF InConnectWait THEN heard \cup {WIFI_CONNECTED_BIT} ELSE heard
    /\ ev' = << >>
    /\ UNCHANGED <<bootVars, otaVars, ctlVars, locVars, dlVars, radio, nvs_creds,
                   s_portal_http, portal_pc, timeVars, call>>

\* wifi_event_handler, WIFI_EVENT_STA_DISCONNECTED (lines 94-97).
StaDisconnected ==
    /\ radio = "sta" /\ link \in {"connecting", "up"}
    /\ link' = "down"
    /\ s_connected' = FALSE
    /\ bits' = bits \cup {WIFI_FAIL_BIT}
    /\ heard' = IF InConnectWait THEN heard \cup {WIFI_FAIL_BIT} ELSE heard
    /\ ev' = << >>
    /\ UNCHANGED <<bootVars, otaVars, ctlVars, locVars, dlVars, radio, nvs_creds,
                   s_portal_http, portal_pc, timeVars, call>>

\* wifi_manager_connect, lines 246-264: load the credentials, configure the
\* station and start the radio.  A radio started from off raises STA_START,
\* whose handler calls esp_wifi_connect; a radio already started raises nothing.
WcEntry ==
    /\ pc = "wc_entry"
    /\ \E nvs_ok \in BOOLEAN, drv_ok \in BOOLEAN :
       IF ~nvs_load_credentials(nvs_creds, nvs_ok)
       THEN /\ wr' = "NO_CREDENTIALS"
            /\ pc' = "wc_ret"
            /\ ev' = <<Ev("connect", "NO_CREDENTIALS")>>
            /\ UNCHANGED <<bootVars, otaVars, task, state, update_info, ret,
                           got_creds, probe, dlVars, wifiVars, timeVars, call,
                           heard>>
       ELSE IF ~drv_ok THEN Panic
            ELSE /\ radio' = "sta"
                 /\ link' = IF radio = "off" THEN "connecting" ELSE link
                 /\ pc' = "wc_clear"
                 /\ heard' = {}
                 /\ ev' = << >>
                 /\ UNCHANGED <<bootVars, otaVars, task, state, locVars, dlVars,
                                s_connected, bits, nvs_creds, s_portal_http, portal_pc,
                                timeVars, call>>

\* Line 267: xEventGroupClearBits.
WcClear ==
    /\ pc = "wc_clear"
    /\ bits' = bits \ {WIFI_CONNECTED_BIT, WIFI_FAIL_BIT}
    /\ pc' = "wc_wait"
    /\ ev' = << >>
    /\ UNCHANGED <<bootVars, otaVars, task, state, locVars, dlVars, s_connected,
                   radio, link, nvs_creds, s_portal_http, portal_pc, timeVars, call, heard>>

\* Lines 268-275: xEventGroupWaitBits (clear on exit, wait for any) returns;
\* with neither bit set it returns by timeout.  With WIFI_CONNECTED_BIT the
\* function returns OK; otherwise wr holds what the local bits decide, and
\* esp_wifi_stop is still to be called.
WcWait ==
    /\ pc = "wc_wait"
    /\ LET got == bits \cap {WIFI_CONNECTED_BIT, WIFI_FAIL_BIT}
           res == IF WIFI_CONNECTED_BIT \in got THEN "OK"
                  ELSE IF WIFI_FAIL_BIT \in got THEN "FAIL" ELSE "TIMEOUT"
       IN  /\ wr' = res
           /\ bits' = bits \ got
           /\ IF res = "OK"
              THEN /\ ev' = <<Ev("connect", res)>>
                   /\ pc' = "wc_ret"
                   /\ heard' = {}
              ELSE /\ ev' = << >>
                   /\ pc' = "wc_stop"
                   /\ UNCHANGED heard
    /\ TimePasses
    /\ UNCHANGED <<bootVars, otaVars, task, state, update_info, ret, got_creds,
                   probe, dlVars, s_connected, radio, link, nvs_creds,
                   s_portal_http, portal_pc, call>>

\* Lines 277-278: esp_wifi_stop, and FAIL or TIMEOUT is returned.
WcStop ==
    /\ pc = "wc_stop"
    /\ WifiStop
    /\ bits' = BitsAfterStop(bits)
    /\ ev' = <<Ev("connect", wr)>>
    /\ pc' = "wc_ret"
    /\ heard' = {}
    /\ UNCHANGED <<bootVars, otaVars, task, state, locVars, dlVars, nvs_creds,
                   s_portal_http, portal_pc, timeVars, call>>

Connect == WcEntry \/ WcClear \/ WcWait \/ WcStop

(* ------------------------------------------------------------------ *)
(* The portal's form handling, on C strings                             *)
(* ------------------------------------------------------------------ *)

\* A buffer read as a C string: the bytes before the first NUL.
CStr(bytes) ==
    LET nuls == {i \in 1..Len(bytes) : bytes[i] = 0}
    IN  IF nuls = {} THEN bytes
        ELSE SubSeq(bytes, 1, (CHOOSE i \in nuls : \A j \in nuls : i <= j) - 1)

\* isspace in the C locale: space, and tab to carriage return.
isspace(c) == c = 32 \/ (c >= 9 /\ c <= 13)

\* The value of a hex digit, -1 for any other byte.
HexVal(c) ==
    IF c >= 48 /\ c <= 57 THEN c - 48
    ELSE IF c >= 65 /\ c <= 70 THEN c - 55
    ELSE IF c >= 97 /\ c <= 102 THEN c - 87
    ELSE -1

\* strtol(hex, NULL, 16) on a string of two bytes (line 156): white space is
\* skipped, a sign is taken, then the hex digits up to the first byte that
\* is not one ("0x" with no digit after it is the digit 0); 0 when there is
\* no digit.
strtol16(hex) ==
    LET h == HexVal(hex[1])
        l == HexVal(hex[2])
    IN  IF isspace(hex[1]) \/ hex[1] = 43 THEN (IF l < 0 THEN 0 ELSE l)
        ELSE IF hex[1] = 45 THEN (IF l < 0 THEN 0 ELSE 0 - l)
        ELSE IF h < 0 THEN 0
        ELSE IF l < 0 THEN h
        ELSE 16 * h + l

\* The cast (char) of line 156 keeps the low eight bits.
ToChar(v) == IF v < 0 THEN v + 256 ELSE v

\* url_decode (lines 150-166) from position p on: "%" (37) with two bytes
\* after it becomes the byte they spell, "+" (43) a space, any other byte
\* itself.  A decoded NUL ends the C string.
RECURSIVE url_decode_from(_, _)
url_decode_from(str, p) ==
    IF p > Len(str) THEN << >>
    ELSE IF str[p] = 37 /\ p + 2 <= Len(str)
    THEN LET v == ToChar(strtol16(SubSeq(str, p + 1, p + 2)))
         IN  IF v = 0 THEN << >> ELSE <<v>> \o url_decode_from(str, p + 3)
    ELSE IF str[p] = 43 THEN <<32>> \o url_decode_from(str, p + 1)
    ELSE <<str[p]>> \o url_decode_from(str, p + 1)

url_decode(str) == url_decode_from(str, 1)

\* strstr / strchr: the first position at or after `from` where the needle
\* starts, 0 when there is none.
StrFind(hay, needle, from) ==
    LET hits == {i \in from..(Len(hay) - Len(needle) + 1) :
                    SubSeq(hay, i, i + Len(needle) - 1) = needle}
    IN  IF hits = {} THEN 0 ELSE CHOOSE i \in hits : \A j \in hits : i <= j

\* extract_form_value (lines 169-184): the text after the first "key=" up to
\* the next "&" (38), cut to out_len - 1 bytes and then URL-decoded.
extract_form_value(body, key, out_len) ==
    LET search == key \o <<61>>
        at     == StrFind(body, search, 1)
        start  == at + Len(search)
        amp    == StrFind(body, <<38>>, start)
        len0   == IF amp # 0 THEN amp - start ELSE Len(body) - start + 1
        len    == IF len0 >= out_len THEN out_len - 1 ELSE len0
    IN  IF at = 0 THEN [found |-> FALSE, value |-> << >>]
        ELSE [found |-> TRUE,
              value |-> url_decode(SubSeq(body, start, start + len - 1))]

\* The size of portal_post_handler's body buffer (line 188).
BODY_BUF == 256

\* What httpd_req_recv may return for a request body and a buffer of buf_len
\* bytes: an error, or the number of bytes it has put in the buffer, which
\* is not more than the body has left nor than the buffer holds.
httpd_req_recv(sent, buf_len) ==
    {0 - 1} \cup 0..(IF Len(sent) < buf_len THEN Len(sent) ELSE buf_len)

\* The key names "ssid" and "password" (lines 199, 203).
KeySsid == Codes("ssid")
KeyPassword == Codes("password")

\* portal_post_handler (lines 186-205): what it answers and, when it goes on
\* to save, the pair it saves.  `sent` is the request body, recv_len what
\* the one call of httpd_req_recv returns (lines 189-194): the handler works
\* on the first recv_len bytes of the body.
portal_post_handler(sent, recv_len) ==
    LET body == CStr(SubSeq(sent, 1, recv_len))
        ssid == extract_form_value(body, KeySsid, SSID_BUF)
        pass == extract_form_value(body, KeyPassword, PASS_BUF)
    IN  IF recv_len <= 0
        THEN [status |-> "500", save |-> FALSE, ssid |-> << >>, pass |-> << >>]
        ELSE IF ~ssid.found
        THEN [status |-> "400", save |-> FALSE, ssid |-> << >>, pass |-> << >>]
        ELSE [status |-> "200", save |-> TRUE, ssid |-> ssid.value,
              pass |-> pass.value]

\* An upper-case hex digit.
UpperHexDigit(n) == IF n < 10 THEN 48 + n ELSE 55 + n

\* The form encoding a browser submits: letters, digits and "-_.*" as they
\* are, a space as "+", any other byte as "%" and two upper-case hex digits.
RECURSIVE FormEncode(_)
FormEncode(raw) ==
    IF raw = << >> THEN << >>
    ELSE LET c == raw[1]
             plain == \/ (c >= 48 /\ c <= 57) \/ (c >= 65 /\ c <= 90)
                      \/ (c >= 97 /\ c <= 122) \/ c \in {45, 95, 46, 42}
         IN  (IF plain THEN <<c>>
              ELSE IF c = 32 THEN <<43>>
              ELSE <<37, UpperHexDigit(c \div 16), UpperHexDigit(c % 16)>>)
             \o FormEncode(SubSeq(raw, 2, Len(raw)))

\* What a client's POST to /save comes to in portal_post_handler: nothing
\* readable, a body without an ssid field, or a body from which an ssid and
\* a password are extracted; w is what the write to the store meets.
PortalRequests ==
    {[kind |-> "no_body", ssid |-> << >>, pass |-> << >>, w |-> Written],
     [kind |-> "no_ssid", ssid |-> << >>, pass |-> << >>, w |-> Written]}
    \cup [kind : {"form"}, ssid : Ssids, pass : Passwords, w : NvsOutcomes]

\* The pair of a request is in the store after nvs_save_credentials, with an
\* SSID that is not empty.
Persisted(ssid, w) == w = Written /\ ssid # << >>

\* portal_post_handler (lines 186-209) on the HTTP server's task, which
\* handles one request at a time.  A request without a body or without an
\* ssid field is answered with an error; for any other nvs_save_credentials
\* is called and the handler blocks in httpd_resp_send.
PortalSave ==
    /\ s_portal_http /\ portal_pc = "idle"
    /\ \E req \in PortalRequests :
        IF req.kind # "form"
        THEN UNCHANGED <<nvs_creds, portal_pc, heard>>
        ELSE /\ nvs_creds' = nvs_save_credentials(nvs_creds, req.ssid, req.pass,
                                                  req.w)
             /\ portal_pc' = "resp"
             /\ heard' = IF Persisted(req.ssid, req.w) THEN heard \cup {"saved"}
                          ELSE heard
    /\ ev' = << >>
    /\ UNCHANGED <<bootVars, otaVars, ctlVars, locVars, dlVars, s_connected, bits,
                   radio, link, s_portal_http, timeVars, call>>

\* portal_post_handler lines 209-213: httpd_resp_send returns, whatever its
\* result, and PORTAL_DONE_BIT is set.
PortalDone ==
    /\ portal_pc = "resp"
    /\ bits' = bits \cup {PORTAL_DONE_BIT}
    /\ portal_pc' = "idle"
    /\ ev' = << >>
    /\ UNCHANGED <<bootVars, otaVars, ctlVars, locVars, dlVars, s_connected,
                   radio, link, nvs_creds, s_portal_http, timeVars, call, heard>>

(* ------------------------------------------------------------------ *)
(* ota_manager_check_update                                            *)
(* ------------------------------------------------------------------ *)

\* A well-formed answer to POST /api/ota/check, which the function requests
\* twice: status and content_len are those of the first answer (lines
\* 85-93); status2, content_len2 and the body (json, hash) those of the
\* second (lines 115-131), whose body is the one parsed; alloc_ok is whether
\* calloc gave the response buffer (lines 101-105).
GoodResponse ==
    [perform_ok |-> TRUE, status |-> 200, content_len |-> 120, alloc_ok |-> TRUE,
     open_ok |-> TRUE,
     status2 |-> 200, content_len2 |-> 120, json |-> "no_update", hash |-> << >>]

\* What the server can answer: the request fails, a non-200 status, no body,
\* a body over the cap, the second request cannot be opened, a body that is
\* not JSON, update_available false, or true with an artifact_hash; and a
\* second answer that differs from the first in status or in length.
CheckResponses ==
    {[GoodResponse EXCEPT !.perform_ok = FALSE],
     [GoodResponse EXCEPT !.status = 500],
     [GoodResponse EXCEPT !.content_len = 0],
     [GoodResponse EXCEPT !.content_len = 2049],
     [GoodResponse EXCEPT !.alloc_ok = FALSE],
     [GoodResponse EXCEPT !.open_ok = FALSE],
     [GoodResponse EXCEPT !.json = "invalid"],
     [GoodResponse EXCEPT !.content_len2 = 0],
     [GoodResponse EXCEPT !.content_len2 = 121],
     GoodResponse}
    \cup {[GoodResponse EXCEPT !.json = "update", !.hash = h] : h \in ReleaseHashes}
    \cup {[GoodResponse EXCEPT !.status2 = 500, !.json = "update", !.hash = h] :
             h \in ReleaseHashes}

\* Lines 85-165: the result, and the artifact_hash left in *out_info (which
\* the caller zeroed before the call).
ota_manager_check_update(resp) ==
    IF ~resp.perform_ok THEN [res |-> "ERROR", artifact_hash |-> << >>]
    ELSE IF resp.status # 200 \/ resp.content_len <= 0 \/ resp.content_len > 2048
    THEN [res |-> "ERROR", artifact_hash |-> << >>]
    ELSE IF ~resp.alloc_ok THEN [res |-> "ERROR", artifact_hash |-> << >>]
    ELSE IF ~resp.open_ok THEN [res |-> "ERROR", artifact_hash |-> << >>]
    ELSE IF resp.content_len2 <= 0 \/ resp.json = "invalid"
    THEN [res |-> "ERROR", artifact_hash |-> << >>]
    ELSE IF resp.json # "update" THEN [res |-> "NO_UPDATE", artifact_hash |-> << >>]
    ELSE [res |-> "AVAILABLE",
          artifact_hash |-> strncpy(resp.hash, OTA_MAX_HASH_LEN - 1)]

\* Line 101: the bytes of the response buffer, calloc(1, content_len + 1).
response_alloc(resp) == resp.content_len + 1

\* Lines 122-125: the bytes esp_http_client_read is asked to put into the
\* buffer, the Content-Length of the second answer, which the server sends.
response_read(resp) == IF resp.content_len2 > 0 THEN resp.content_len2 ELSE 0

\* The call gets as far as the read of line 124.
reaches_read(resp) ==
    /\ resp.perform_ok /\ resp.status = 200
    /\ resp.content_len > 0 /\ resp.content_len <= 2048
    /\ resp.alloc_ok /\ resp.open_ok

\* Lines 101 and 123-131: the buffer holds content_len + 1 zeroed bytes and
\* content_len2 bytes are read into it; a longer second body fills the
\* buffer to its last byte or beyond, and the parser reads on past it.
check_update_overflows(resp) ==
    /\ resp.perform_ok /\ resp.status = 200
    /\ resp.content_len > 0 /\ resp.content_len <= 2048
    /\ resp.alloc_ok /\ resp.open_ok
    /\ resp.content_len2 > resp.content_len

\* What a call can come to.  Writing past the buffer is undefined: the heap
\* check may abort the firmware ("CRASH"), or the call may go on to any
\* result.
check_update_outcomes(resp) ==
    IF check_update_overflows(resp)
    THEN {[res |-> r, artifact_hash |-> << >>] : r \in {"CRASH", "ERROR", "NO_UPDATE"}}
         \cup {[res |-> "AVAILABLE",
                artifact_hash |-> strncpy(resp.hash, OTA_MAX_HASH_LEN - 1)]}
    ELSE {ota_manager_check_update(resp)}

(* ------------------------------------------------------------------ *)
(* main.c: agent_task, one action per state handler or blocking step    *)
(* ------------------------------------------------------------------ *)

AtLoop(st) == task = "agent_task" /\ pc = "loop" /\ state = st

\* Mutant: BOOT never looks at the image state.
Boot_NoPendingCheck ==
    /\ AtLoop("BOOT")
    /\ state' = "WIFI_CONNECT"
    /\ ev' = << >>
    /\ UNCHANGED <<bootVars, otaVars, task, pc, locVars, dlVars, wifiVars,
                   timeVars, call, heard>>

\* STATE_BOOT (lines 115-132).
Boot ==
    /\ AtLoop("BOOT")
    /\ state' = IF img_state[running] = "pending_verify" THEN "HEALTH_CHECK"
                ELSE "WIFI_CONNECT"
    /\ ev' = << >>
    /\ UNCHANGED <<bootVars, otaVars, task, pc, locVars, dlVars, wifiVars,
                   timeVars, call, heard>>

\* app_main and wifi_manager_init before agent_task exists (main.c line 325,
\* wifi_manager.c lines 229-238): a failed ESP_ERROR_CHECK aborts, and the
\* device resets again without the task having run.
AppMainAbort ==
    /\ AtLoop("BOOT")
    /\ Panic

\* STATE_WIFI_CONNECT (line 137): enter wifi_manager_connect.
WifiConnectCall ==
    /\ AtLoop("WIFI_CONNECT")
    /\ pc' = "wc_entry"
    /\ ev' = << >>
    /\ UNCHANGED <<bootVars, otaVars, task, state, locVars, dlVars, wifiVars,
                   timeVars, call, heard>>

\* STATE_WIFI_CONNECT (lines 139-150): act on its result.
WifiConnectRet ==
    /\ task = "agent_task" /\ pc = "wc_ret" /\ state = "WIFI_CONNECT"
    /\ state' = IF wr = "OK" THEN "IDLE" ELSE "AP_PORTAL"
    /\ wr' = "none"
    /\ pc' = "loop"
    /\ ev' = << >>
    /\ UNCHANGED <<bootVars, otaVars, task, update_info, ret, got_creds, probe,
                   dlVars, wifiVars, timeVars, call, heard>>

\* STATE_AP_PORTAL, wifi_manager_start_ap_portal lines 300-354: stop the
\* station, start the access point and the HTTP server.
ApPortalStart ==
    /\ AtLoop("AP_PORTAL")
    /\ \E drv_ok \in BOOLEAN, httpd_ok \in BOOLEAN :
        IF ~drv_ok THEN Panic
        ELSE /\ radio' = "ap"
             /\ link' = "down"
             /\ s_connected' = IF link = "up" THEN FALSE ELSE s_connected
             /\ bits' = BitsAfterStop(bits)
             /\ s_portal_http' = httpd_ok
             /\ heard' = {}
             /\ pc' = "ap_clear"
             /\ ev' = << >>
             /\ UNCHANGED <<bootVars, otaVars, task, state, locVars, dlVars,
                            nvs_creds, portal_pc, timeVars, call>>

\* wifi_manager_start_ap_portal line 356: clear PORTAL_DONE_BIT.
ApPortalClear ==
    /\ task = "agent_task" /\ pc = "ap_clear"
    /\ bits' = bits \ {PORTAL_DONE_BIT}
    /\ pc' = "ap_wait"
    /\ ev' = << >>
    /\ UNCHANGED <<bootVars, otaVars, task, state, locVars, dlVars, s_connected,
                   radio, link, nvs_creds, s_portal_http, portal_pc, timeVars, call, heard>>

\* wifi_manager_wait_for_portal_result (lines 359-364): the flag, cleared on
\* exit, or a timeout when it is not set after AP_PORTAL_TIMEOUT_MS.
ApPortalWait ==
    /\ task = "agent_task" /\ pc = "ap_wait"
    /\ got_creds' = (PORTAL_DONE_BIT \in bits)
    /\ bits' = bits \ {PORTAL_DONE_BIT}
    /\ IF PORTAL_DONE_BIT \in bits
       THEN TimePasses
       ELSE \E c \in TimedOut(Clock, AP_PORTAL_TIMEOUT_MS) : SetClock(c)
    /\ pc' = "ap_stop"
    /\ ev' = <<Ev("portal", BoolStr(got_creds'))>>
    /\ UNCHANGED <<bootVars, otaVars, task, state, update_info, ret, wr, probe,
                   dlVars, s_connected, radio, link, nvs_creds, s_portal_http, portal_pc,
                   call, heard>>

\* httpd_stop (line 369) returns when the server's task has ended, and the
\* task ends between requests: a handler blocked in httpd_resp_send runs to
\* its end first and sets its flag.
HandlerEnded(b) == IF portal_pc = "resp" THEN b \cup {PORTAL_DONE_BIT} ELSE b

\* Mutant of ApPortalStop: the HTTP server is left running.
ApPortalStop_LeavesServer ==
    /\ task = "agent_task" /\ pc = "ap_stop"
    /\ WifiStop
    /\ bits' = BitsAfterStop(HandlerEnded(bits))
    /\ portal_pc' = "idle"
    /\ state' = IF got_creds THEN "WIFI_CONNECT" ELSE "AP_PORTAL"
    /\ got_creds' = FALSE
    /\ heard' = {}
    /\ pc' = "loop"
    /\ ev' = << >>
    /\ UNCHANGED <<bootVars, otaVars, task, update_info, ret, wr, probe, dlVars,
                   nvs_creds, s_portal_http, call>>
    /\ Blocked

\* wifi_manager_stop_ap_portal (lines 366-374) and main.c lines 163-171.
ApPortalStop ==
    /\ task = "agent_task" /\ pc = "ap_stop"
    /\ s_portal_http' = FALSE
    /\ portal_pc' = "idle"
    /\ WifiStop
    /\ bits' = BitsAfterStop(HandlerEnded(bits))
    /\ state' = IF got_creds THEN "WIFI_CONNECT" ELSE "AP_PORTAL"
    /\ got_creds' = FALSE
    /\ heard' = {}
    /\ pc' = "loop"
    /\ ev' = << >>
    /\ UNCHANGED <<bootVars, otaVars, task, update_info, ret, wr, probe, dlVars,
                   nvs_creds, call>>
    /\ Blocked

\* STATE_IDLE (lines 175-200).  The readings of the last health check are
\* locals of a handler long left; they are dropped here.
Idle ==
    /\ AtLoop("IDLE")
    /\ LET hb_due  == hb_age >= HEARTBEAT_INTERVAL_MS
           ota_due == ota_age >= OTA_CHECK_INTERVAL_MS
           \* last_heartbeat = now (line 181): the check, not yet due, comes
           \* first from OTA_LATE_MS on, and passes OTA_LATE_MS first before
           hb_set  == IF hb_due
                      THEN [hb |-> 0, ota |-> ota_age,
                            lead |-> IF ota_due THEN "hb" ELSE "ota"]
                      ELSE Clock
           \* last_ota_check = now (line 187): a heartbeat timer that was not
           \* set at this same now is the older one
           ota_set == IF ota_due
                      THEN [hb |-> hb_set.hb, ota |-> 0,
                            lead |-> IF hb_due THEN "ota" ELSE "hb"]
                      ELSE hb_set
           \* device_agent_send_heartbeat (line 180) and vTaskDelay (line
           \* 198) block; both timers are set to the now read before them
           blocks  == hb_due \/ (~ota_due /\ s_connected)
       IN  /\ ev' = IF hb_due THEN <<Ev("heartbeat", "sent")>> ELSE << >>
           /\ state' = IF ota_due THEN "CHECK_UPDATE"
                       ELSE IF ~s_connected THEN "WIFI_CONNECT"
                       ELSE state
           /\ \E c \in (IF blocks THEN Elapsed(ota_set) ELSE {ota_set}) :
                  SetClock(c)
    /\ probe' = NoProbe
    /\ UNCHANGED <<bootVars, otaVars, task, pc, update_info, ret, wr, got_creds,
                   dlVars, wifiVars, call, heard>>

\* STATE_CHECK_UPDATE (lines 203-224).
CheckUpdate ==
    /\ AtLoop("CHECK_UPDATE")
    /\ \E resp \in CheckResponses : \E r \in check_update_outcomes(resp) :
        IF r.res = "CRASH" THEN Panic
        ELSE
            /\ update_info' = [artifact_hash |-> r.artifact_hash]
            /\ ev' = <<Ev("check", r.res)>>
            /\ state' = IF r.res = "AVAILABLE" THEN "DOWNLOAD" ELSE "IDLE"
            /\ Blocked
            /\ UNCHANGED <<bootVars, otaVars, task, pc, ret, wr, got_creds, probe,
                           dlVars, wifiVars, call, heard>>

\* STATE_DOWNLOAD (lines 228-231): report "downloading", enter download.
DownloadCall ==
    /\ AtLoop("DOWNLOAD")
    /\ ev' = <<Ev("report", "downloading")>>
    /\ pc' = "dl_entry"
    /\ UNCHANGED <<bootVars, otaVars, task, state, locVars, dlVars, wifiVars,
                   call, heard>>
    /\ Blocked

\* Mutant of DownloadRet: a failed download is not reported.
DownloadRet_Silent ==
    /\ task = "agent_task" /\ pc = "dl_ret" /\ state = "DOWNLOAD"
    /\ state' = IF ret = "OK" THEN "VERIFY" ELSE "IDLE"
    /\ ev' = << >>
    /\ ret' = "none"
    /\ pc' = "loop"
    /\ UNCHANGED <<bootVars, otaVars, task, update_info, wr, got_creds, probe,
                   dlVars, wifiVars, timeVars, call, heard>>

\* STATE_DOWNLOAD (lines 233-241): act on download's result; the report of
\* a failure (line 238) is an HTTP request, which blocks.
DownloadRet ==
    /\ task = "agent_task" /\ pc = "dl_ret" /\ state = "DOWNLOAD"
    /\ IF ret = "OK"
       THEN /\ state' = "VERIFY"
            /\ ev' = << >>
            /\ UNCHANGED timeVars
       ELSE /\ state' = "IDLE"
            /\ ev' = <<Ev("report", "failed")>>
            /\ Blocked
    /\ ret' = "none"
    /\ pc' = "loop"
    /\ UNCHANGED <<bootVars, otaVars, task, update_info, wr, got_creds, probe,
                   dlVars, wifiVars, call, heard>>

\* Mutant of Verify: APPLY follows whatever verify_hash returned.
Verify_ApplyAnyway ==
    /\ AtLoop("VERIFY")
    /\ LET r == ota_manager_verify_hash(Pipeline, update_info.artifact_hash)
       IN  /\ SetPipeline(r.p)
           /\ state' = "APPLY"
           /\ ev' = <<Ev("verify", BoolStr(r.res))>>
    /\ UNCHANGED <<running, flash, task, pc, locVars, dlVars, wifiVars, call, heard>>
    /\ Blocked

\* STATE_VERIFY (lines 245-258).
Verify ==
    /\ AtLoop("VERIFY")
    /\ LET r == ota_manager_verify_hash(Pipeline, update_info.artifact_hash)
       IN  IF r.res
           THEN /\ SetPipeline(r.p)
                /\ state' = "APPLY"
                /\ ev' = <<Ev("verify", "true")>>
           ELSE /\ SetPipeline(ota_manager_abort(r.p))
                /\ state' = "IDLE"
                /\ ev' = <<Ev("verify", "false"), Ev("report", "failed"),
                           Ev("abort", "void")>>
    /\ UNCHANGED <<running, flash, task, pc, locVars, dlVars, wifiVars, call, heard>>
    /\ Blocked

\* Mutant: APPLY restarts the device whatever apply() returned.
Apply_RestartAlways ==
    /\ AtLoop("APPLY")
    /\ \E end_ok \in BOOLEAN, set_ok \in BOOLEAN :
        LET r == ota_manager_apply(Pipeline, end_ok, set_ok)
        IN  /\ SetPipeline(r.p)
            /\ ev' = <<Ev("apply", BoolStr(r.res)), Ev("report", "applied")>>
            /\ pc' = "restart"
            /\ UNCHANGED state
    /\ UNCHANGED <<running, flash, task, locVars, dlVars, wifiVars, call,
                    heard>>
    /\ Blocked

\* STATE_APPLY (lines 261-276) up to the restart.
Apply ==
    /\ AtLoop("APPLY")
    /\ \E end_ok \in BOOLEAN, set_ok \in BOOLEAN :
        LET r == ota_manager_apply(Pipeline, end_ok, set_ok)
        IN  /\ SetPipeline(r.p)
            /\ IF r.res
               THEN /\ ev' = <<Ev("apply", "true"), Ev("report", "applied")>>
                    /\ pc' = "restart"
                    /\ UNCHANGED state
               ELSE /\ ev' = <<Ev("apply", "false"), Ev("report", "failed")>>
                    /\ state' = "IDLE"
                    /\ UNCHANGED pc
    /\ UNCHANGED <<running, flash, task, locVars, dlVars, wifiVars, call,
                    heard>>
    /\ Blocked

\* STATE_APPLY (lines 267-268): the delay and esp_restart.
Restart ==
    /\ task = "agent_task" /\ pc = "restart"
    /\ Reset(boot_part, img_state)
    /\ ev' = <<Ev("reset", "esp_restart")>>

\* Mutant: an unreachable OTA server fails the health check.
perform_health_check_ReachFatal(free_heap, connected, reachable) ==
    free_heap >= HEALTH_CHECK_HEAP_MIN /\ connected /\ reachable

\* perform_health_check (lines 73-99).
perform_health_check(free_heap, connected, reachable) ==
    IF free_heap < HEALTH_CHECK_HEAP_MIN THEN FALSE
    ELSE IF ~connected THEN FALSE
    ELSE TRUE

\* Free-heap readings around the floor.
HeapSamples == {HEALTH_CHECK_HEAP_MIN - 1, HEALTH_CHECK_HEAP_MIN}

\* STATE_HEALTH_CHECK (line 281): enter wifi_manager_connect.
HealthConnectCall ==
    /\ AtLoop("HEALTH_CHECK")
    /\ pc' = "wc_entry"
    /\ ev' = << >>
    /\ UNCHANGED <<bootVars, otaVars, task, state, locVars, dlVars, wifiVars,
                   timeVars, call, heard>>

\* STATE_HEALTH_CHECK (lines 282-286): roll back when connect failed.
HealthConnectRet ==
    /\ task = "agent_task" /\ pc = "wc_ret" /\ state = "HEALTH_CHECK"
    /\ IF wr # "OK"
       THEN /\ RollbackAndReboot
            /\ ev' = <<Ev("rollback", wr), Ev("reset", "rollback")>>
       ELSE /\ pc' = "hc_probe"
            /\ ev' = << >>
            /\ UNCHANGED <<bootVars, otaVars, task, state, locVars, dlVars,
                           wifiVars, timeVars, call, heard>>

\* STATE_HEALTH_CHECK (line 288): perform_health_check reads the free heap,
\* is_connected() and server_reachable() and returns its verdict.
HealthProbe ==
    /\ task = "agent_task" /\ pc = "hc_probe"
    /\ \E free_heap \in HeapSamples, reachable \in BOOLEAN :
        probe' = [heap |-> free_heap, linked |-> s_connected, reach |-> reachable,
                  pass |-> perform_health_check(free_heap, s_connected, reachable)]
    /\ pc' = "hc_act"
    /\ ev' = << >>
    /\ UNCHANGED <<bootVars, otaVars, task, state, update_info, ret, wr,
                   got_creds, dlVars, wifiVars, call, heard>>
    /\ Blocked

\* STATE_HEALTH_CHECK (lines 288-299): commit or rollback on the verdict.
HealthAct ==
    /\ task = "agent_task" /\ pc = "hc_act"
    /\ IF probe.pass
       THEN /\ img_state' = MarkValid(img_state, running)
            /\ ev' = <<Ev("commit", "valid"), Ev("report", "success")>>
            /\ state' = "IDLE"
            /\ pc' = "loop"
            /\ wr' = "none"
            /\ Blocked
            /\ UNCHANGED <<running, boot_part, flash, ota_handles, otaVars, task,
                           update_info, ret, got_creds, probe, dlVars, wifiVars,
                           call, heard>>
       ELSE /\ RollbackAndReboot
            /\ ev' = <<Ev("report", "failed"), Ev("rollback", "probe"),
                       Ev("reset", "rollback")>>

AgentTask ==
    \/ Boot \/ WifiConnectCall \/ WifiConnectRet
    \/ ApPortalStart \/ ApPortalClear \/ ApPortalWait \/ ApPortalStop
    \/ Idle \/ CheckUpdate \/ DownloadCall \/ DownloadRet \/ Verify
    \/ Apply \/ Restart
    \/ HealthConnectCall \/ HealthConnectRet \/ HealthProbe \/ HealthAct

Init ==
    /\ InitCommon
    /\ task = "agent_task"
    /\ pc = "loop"
    /\ state = "BOOT"

Next ==
    \/ AgentTask \/ Connect \/ Download \/ GotIp \/ StaDisconnected \/ PortalSave
    \/ PortalDone \/ AppMainAbort

Spec == Init /\ [][Next]_vars

\* The steps of the agent_task thread: its handlers and the calls it is in.
SupervisorStep == AgentTask \/ Connect \/ Download

\* The device with agent_task scheduled fairly: FreeRTOS runs the task
\* whenever it is ready, and each of its blocking calls returns by its
\* timeout.  The radio's events and the portal's clients are under no
\* obligation.
SpecFair == Init /\ [][Next]_vars /\ WF_vars(SupervisorStep)

(* ------------------------------------------------------------------ *)
(* The portal handler and the credential store, driven by a client     *)
(* ------------------------------------------------------------------ *)

\* Credentials a user enters: empty, plain, with bytes the form encoding
\* escapes (a grave accent and a byte above 127 among them), and at the
\* length limits of 32 and 64 bytes.
PortalSsids ==
    {<< >>, Codes("home"), Codes("my net"), Codes("a&b=c"), <<104, 96, 233>>,
     Rep(97, SSID_BUF - 1), Rep(97, SSID_BUF - 2) \o <<38>>}
PortalPasswords ==
    {<< >>, Codes("abc"), Codes("p%q+r"), Rep(120, PASS_BUF - 1),
     Rep(38, PASS_BUF - 1)}

\* The form a browser builds from an entered pair.
FormBody(s, p) ==
    KeySsid \o <<61>> \o FormEncode(s) \o <<38>> \o KeyPassword \o <<61>>
    \o FormEncode(p)

\* A body received whole, as far as the buffer holds it.
Whole(body) == IF Len(body) < BODY_BUF THEN Len(body) ELSE BODY_BUF - 1

\* Bodies no browser builds: escapes that strtol reads as a sign, as white
\* space or as "0x", an escape that decodes to NUL, raw bytes above 127 and
\* a NUL byte in the body.
RawBodies ==
    {Codes("ssid=%-1%+a&password=% 5%0x"),
     Codes("ssid=ab%00cd&password=%zz%4"),
     Codes("ssid=") \o <<200, 96, 7>> \o Codes("&password=%e9%60"),
     Codes("ssid=ho") \o <<0>> \o Codes("me&password=abc")}

\* The requests a client sends to POST /save: the form of each pair,
\* received whole, with the store taking the write or not opening; the form
\* of two pairs with every outcome of the write; one form received in part,
\* at every length; the raw bodies; a request whose body cannot be read, an
\* empty body and a form without the ssid field.
PortalPosts ==
    {[kind |-> "form", ssid |-> s, pass |-> p, body |-> FormBody(s, p),
      recv |-> Whole(FormBody(s, p)), w |-> w] :
        s \in PortalSsids, p \in PortalPasswords, w \in {Written, NotOpened}}
    \cup {[kind |-> "form", ssid |-> s, pass |-> p, body |-> FormBody(s, p),
           recv |-> Whole(FormBody(s, p)), w |-> w] :
             s \in {Codes("home"), Codes("my net")},
             p \in {<< >>, Codes("abc")}, w \in NvsOutcomes}
    \cup {[kind |-> "part", ssid |-> Codes("home"), pass |-> Codes("abc"),
           body |-> FormBody(Codes("home"), Codes("abc")), recv |-> n,
           w |-> Written] :
             n \in httpd_req_recv(FormBody(Codes("home"), Codes("abc")),
                                  BODY_BUF - 1)}
    \cup {[kind |-> "raw", ssid |-> << >>, pass |-> << >>, body |-> b,
           recv |-> Len(b), w |-> Written] : b \in RawBodies}
    \cup {[kind |-> "no_body", ssid |-> << >>, pass |-> << >>, body |-> << >>,
           recv |-> 0, w |-> Written],
          [kind |-> "no_ssid", ssid |-> << >>, pass |-> << >>,
           body |-> Codes("password=abc"), recv |-> 12, w |-> Written]}

\* What portal_post_handler makes of each of these requests.
PortalOutcome == [req \in PortalPosts |-> portal_post_handler(req.body, req.recv)]

PortalUnchanged ==
    UNCHANGED <<bootVars, otaVars, ctlVars, locVars, dlVars, s_connected, radio,
                link, s_portal_http, timeVars, heard>>

\* A client's POST /save, handled by portal_post_handler up to its call of
\* httpd_resp_send (lines 186-209); PortalDone is the rest.
PostSave ==
    /\ task = "portal_client" /\ portal_pc = "idle"
    /\ \E req \in PortalPosts :
        LET h == PortalOutcome[req]
        IN  /\ call' = req
            /\ nvs_creds' = IF h.save
                            THEN nvs_save_credentials(nvs_creds, h.ssid, h.pass, req.w)
                            ELSE nvs_creds
            /\ portal_pc' = IF h.save THEN "resp" ELSE "idle"
            /\ ev' = <<Ev("post", h.status)>> \o
                     (IF h.save
                      THEN <<Ev("save", [ssid |-> h.ssid, pass |-> h.pass])>>
                      ELSE << >>)
    /\ UNCHANGED bits
    /\ PortalUnchanged

\* wifi_manager_connect lines 246-251: the credentials are loaded, and
\* NO_CREDENTIALS is returned when there are none.
LoadStep ==
    /\ task = "portal_client"
    /\ \E nvs_ok \in BOOLEAN :
        LET got == LoadCredentials(nvs_creds, nvs_ok)
        IN  ev' = <<Ev("load", got)>> \o
                  (IF got.found THEN << >> ELSE <<Ev("connect", "NO_CREDENTIALS")>>)
    /\ UNCHANGED <<nvs_creds, bits, portal_pc, call>>
    /\ PortalUnchanged

\* wifi_manager_erase_credentials (lines 376-385).
EraseStep ==
    /\ task = "portal_client"
    /\ \E w \in NvsOutcomes :
        /\ nvs_creds' = wifi_manager_erase_credentials(nvs_creds, w)
        /\ ev' = <<Ev("erase", "done")>>
    /\ UNCHANGED <<bits, portal_pc, call>>
    /\ PortalUnchanged

InitPortal ==
    /\ InitCommon
    /\ task = "portal_client"
    /\ pc = "client"
    /\ state = "AP_PORTAL"

NextPortal == PostSave \/ PortalDone \/ LoadStep \/ EraseStep

SpecPortal == InitPortal /\ [][NextPortal]_vars

(* ------------------------------------------------------------------ *)
(* A client of ota_manager_check_update                                *)
(* ------------------------------------------------------------------ *)

\* The answers the server can give to the two requests of one call: every
\* combination of transport outcome, status, announced length and body.
CheckInputs ==
    {[perform_ok |-> p, status |-> st, content_len |-> n, alloc_ok |-> a,
      open_ok |-> o,
      status2 |-> st2, content_len2 |-> n2, json |-> j, hash |-> h] :
        p \in BOOLEAN, st \in {200, 500}, n \in {0, 120, 2048, 2049},
        a \in BOOLEAN, o \in BOOLEAN, st2 \in {200, 500}, n2 \in {0, 120, 121, 2049},
        j \in {"invalid", "no_update"}, h \in {<< >>}}
    \cup
    {[perform_ok |-> p, status |-> st, content_len |-> n, alloc_ok |-> a,
      open_ok |-> o,
      status2 |-> st2, content_len2 |-> n2, json |-> "update", hash |-> h] :
        p \in BOOLEAN, st \in {200, 500}, n \in {0, 120, 2048, 2049},
        a \in BOOLEAN, o \in BOOLEAN, st2 \in {200, 500}, n2 \in {0, 120, 121, 2049},
        h \in ReleaseHashes}

\* check_update(out_info): the client calls ota_manager_check_update once,
\* against a server giving the answers held in call.
ApiCheck ==
    /\ task = "check_client" /\ pc = "client"
    /\ \E r \in check_update_outcomes(call) :
        /\ update_info' = [artifact_hash |-> r.artifact_hash]
        /\ ev' = IF r.res = "CRASH" THEN <<Ev("reset", "abort")>>
                  ELSE <<Ev("check", r.res)>>
    /\ pc' = "done"
    /\ UNCHANGED <<bootVars, otaVars, task, state, ret, wr, got_creds, probe,
                   dlVars, wifiVars, timeVars, call, heard>>

\* InitCommon with the server's answers drawn from CheckInputs.
InitCheck ==
    /\ running = "ota_0"
    /\ boot_part = running
    /\ img_state = [s \in Slots |-> "undefined"]
    /\ flash = [s \in Slots |-> << >>]
    /\ ota_handles = {}
    /\ s_ota_handle = 0
    /\ s_update_part = NULL
    /\ s_sha_ctx = ShaZeroed
    /\ s_download_active = FALSE
    /\ update_info = [artifact_hash |-> << >>]
    /\ ret = "none"
    /\ wr = "none"
    /\ got_creds = FALSE
    /\ probe = NoProbe
    /\ http_stream = << >>
    /\ buf = << >>
    /\ downloaded = << >>
    /\ fed = << >>
    /\ s_connected = FALSE
    /\ bits = {}
    /\ radio = "off"
    /\ link = "down"
    /\ nvs_creds = NoCreds
    /\ s_portal_http = FALSE
    /\ portal_pc = "idle"
    /\ hb_age = 0
    /\ ota_age = 0
    /\ lead = "ota"
    /\ heard = {}
    /\ ev = << >>
    /\ call \in CheckInputs
    /\ task = "check_client"
    /\ pc = "client"
    /\ state = "CHECK_UPDATE"

NextCheck == ApiCheck

SpecCheck == InitCheck /\ [][NextCheck]_vars

(* ------------------------------------------------------------------ *)
(* Properties                                                          *)
(* ------------------------------------------------------------------ *)

\* A pipeline call of the supervisor that just returned a failure.
FailureReturned(events) ==
    \/ Happened(events, "check", "ERROR")
    \/ Happened(events, "download", "FAIL")
    \/ Happened(events, "download", "TIMEOUT")
    \/ Happened(events, "verify", "false")
    \/ Happened(events, "apply", "false")

\* C1: in every supervisor trace, when check_update returns ERROR, download
\* returns FAIL or TIMEOUT, verify_hash returns false or apply returns false,
\* the next-boot partition equals the running partition; and from DOWNLOAD
\* to APPLY the next-boot partition changes only in the step in which apply
\* returns true.
C1_FailureLeavesBootPartition ==
    [][/\ FailureReturned(ev') => boot_part' = running'
       /\ (state \in {"DOWNLOAD", "VERIFY", "APPLY"} /\ boot_part' # boot_part)
              => Happened(ev', "apply", "true")]_vars

\* C1 witness: apply has failed on a session that had written its partition.
C1_Witness ==
    /\ Happened(ev, "apply", "false")
    /\ flash[OtherSlot(running)] # << >>
    /\ boot_part = running

\* The partition the pipeline's open writer writes to.
Target == HandlePart(ota_handles, s_ota_handle)

\* C2: verify_hash returns true only if a session was active and the hex
\* SHA-256 of the bytes written to the target partition equals the expected
\* hash compared case-insensitively; with no active session it returns false.
C2_VerifyOnlyTrueOnMatch ==
    (pc = "client" /\ call.op = "verify") =>
        /\ ret = "true" =>
              /\ call.pipe.active
              /\ strcasecmp(hash_to_hex(Sha256(flash[Target]), HashLen),
                            call.expected) = 0
        /\ ~call.pipe.active => ret = "false"

\* C3: each chunk read is first written to the partition and then fed to the
\* hasher, once each: before the write neither has the chunk, between write
\* and feed only the partition has it, and when download returns OK the
\* bytes written and the bytes fed both equal the bytes downloaded.
C3_WrittenAndFedEqualDownloaded ==
    [][/\ pc = "dl_write" => (flash[Target] = fed /\ downloaded = fed \o buf)
       /\ pc = "dl_hash" => (flash[Target] = downloaded /\ downloaded = fed \o buf)
       /\ (pc = "dl_read" /\ Happened(ev', "download", "OK")) =>
              /\ flash[Target] = downloaded
              /\ fed = downloaded
              /\ s_sha_ctx.h = ShaUpdate(ShaStart, downloaded)]_vars

\* C3 witness: download has returned OK after writing an image of full
\* length, whose digest is the one the hasher holds.
C3_Witness ==
    /\ Happened(ev, "download", "OK")
    /\ Len(flash[Target]) = MaxImageLen
    /\ s_sha_ctx.h = ShaUpdate(ShaStart, flash[Target])

\* What a step issued to the bootloader.
Commit(events) == Happened(events, "commit", "valid")
Rollback(events) == Happened(events, "reset", "rollback")

\* C4: every time the supervisor is in HEALTH_CHECK, the step that leaves
\* the state issues exactly one of commit and rollback-and-reboot, and no
\* step that stays in the state issues either.
C4_ExactlyOneOfCommitRollback ==
    [][/\ (state = "HEALTH_CHECK" /\ state' # "HEALTH_CHECK")
              => (Commit(ev') # Rollback(ev'))
       /\ (state = "HEALTH_CHECK" /\ state' = "HEALTH_CHECK")
              => (~Commit(ev') /\ ~Rollback(ev'))]_vars

\* C5: in APPLY, once apply() has returned true the supervisor's next step
\* is the reboot, with no state transition in between, and the reboot of
\* APPLY is issued only from there.
C5_ApplyThenReboot ==
    [][/\ Happened(ev', "apply", "true") => (pc' = "restart" /\ state' = "APPLY")
       /\ (pc' = "restart" /\ pc # "restart") => Happened(ev', "apply", "true")
       /\ pc = "restart" =>
              \/ Happened(ev', "reset", "esp_restart")
              \/ (pc' = "restart" /\ state' = state)
       /\ Happened(ev', "reset", "esp_restart") =>
              (pc = "restart" /\ state = "APPLY" /\ img_state[boot_part] = "new")]_vars

\* C5 witness: the device has restarted out of APPLY into the new image.
C5_Witness ==
    /\ Happened(ev, "reset", "esp_restart")
    /\ state = "BOOT"
    /\ img_state[running] = "pending_verify"

\* C6: under the supervisor no session is active and no writer is open when
\* download is called, nor in BOOT, WIFI_CONNECT, AP_PORTAL, IDLE,
\* CHECK_UPDATE or HEALTH_CHECK; at most one writer is ever open.
C6_NoOverlappingSessions ==
    /\ (state \in {"BOOT", "WIFI_CONNECT", "AP_PORTAL", "IDLE", "CHECK_UPDATE",
                    "HEALTH_CHECK"} \/ pc = "dl_entry")
          => (~s_download_active /\ ota_handles = {})
    /\ Cardinality(ota_handles) <= 1

\* C6 witness: back in IDLE after a session that wrote its partition was
\* aborted on a hash mismatch.
C6_Witness ==
    /\ state = "IDLE"
    /\ Happened(ev, "abort", "void")
    /\ flash[OtherSlot(running)] # << >>
    /\ ~s_download_active

\* C7: download() called while a session is active returns a non-OK result,
\* opens no second writer and leaves the session's hasher as it was.
C7_DownloadRejectedWhileActive ==
    (pc = "client" /\ call.op = "download" /\ call.pipe.active) =>
        /\ ret # "OK"
        /\ ota_handles = call.pipe.handles
        /\ s_sha_ctx = call.pipe.ctx

\* C8: every open writer is on the slot that is not running, and so is the
\* target of a download in progress, whichever slot the device runs from.
C8_TargetIsNotRunning ==
    /\ \A e \in ota_handles : e.part # running
    /\ pc \in {"dl_open", "dl_read", "dl_write", "dl_hash"} =>
          (s_update_part = OtherSlot(running) /\ Target = OtherSlot(running))

\* C8 witness: after an update was applied and the device runs from ota_1, a
\* download has written ota_0.
C8_Witness ==
    /\ running = "ota_1"
    /\ pc = "dl_hash"
    /\ flash["ota_0"] # << >>

\* C9: abort() with no active session, or right after another abort(),
\* leaves the pipeline as it was; apply() right after abort() returns false
\* and leaves the next-boot partition as it was.
C9_AbortIdempotent ==
    pc = "client" =>
        /\ (call.op = "abort" /\ (~call.pipe.active \/ call.prev = "abort"))
              => Pipeline = call.pipe
        /\ (call.op = "apply" /\ call.prev = "abort")
              => (ret = "false" /\ boot_part = call.pipe.boot)

\* C9 witness: a second abort() in a row, after a session had written its
\* partition.
C9_Witness ==
    /\ pc = "client"
    /\ call.op = "abort" /\ call.prev = "abort"
    /\ flash["ota_1"] # << >>

\* The running image was marked invalid and the device reset into the other slot.
RolledBack ==
    /\ Rollback(ev') /\ ~Commit(ev')
    /\ img_state'[running] = "invalid"
    /\ running' = OtherSlot(running)
    /\ state' = "BOOT"

\* C10: in HEALTH_CHECK a connect() result other than OK, a free heap under
\* the floor or a link that is down ends in rollback-and-reboot and not in
\* commit; otherwise the supervisor commits, reports "success" and goes to
\* IDLE, whatever the reachability probe found.
C10_ProbesDecide ==
    [][/\ (state = "HEALTH_CHECK" /\ pc = "wc_ret" /\ pc' # pc /\ wr # "OK")
              => RolledBack
       /\ (pc = "hc_act" /\ pc' # pc) =>
              IF probe.heap >= HEALTH_CHECK_HEAP_MIN /\ probe.linked
              THEN /\ Commit(ev') /\ ~Rollback(ev')
                   /\ Happened(ev', "report", "success")
                   /\ img_state'[running] = "valid"
                   /\ running' = running
                   /\ state' = "IDLE"
              ELSE RolledBack]_vars

\* C10 witness: a commit with the OTA server unreachable.
C10_Witness ==
    /\ Commit(ev)
    /\ ~probe.reach
    /\ state = "IDLE"

\* C11: in HEALTH_CHECK wifi_manager_connect is entered only after the
\* free-heap probe has been evaluated and has passed: while the supervisor
\* is inside connect() the heap reading is there and is not under the floor.
C11_HeapProbeBeforeAssociation ==
    (state = "HEALTH_CHECK"
     /\ pc \in {"wc_entry", "wc_clear", "wc_wait", "wc_stop", "wc_ret"})
        => probe.heap >= HEALTH_CHECK_HEAP_MIN

\* C12: when connect() fails in HEALTH_CHECK the supervisor rolls back and
\* reboots, after which the device runs the other (pre-update) slot, which
\* is not pending-verify; and the BOOT that follows a rollback goes to
\* WIFI_CONNECT.
C12_RollbackRunsPriorSlot ==
    [][/\ (state = "HEALTH_CHECK" /\ pc = "wc_ret" /\ pc' # pc /\ wr # "OK") =>
              /\ Rollback(ev')
              /\ running' = OtherSlot(running)
              /\ img_state'[running'] # "pending_verify"
              /\ state' = "BOOT"
       /\ (state = "BOOT" /\ Rollback(ev) /\ state' # state) =>
              state' = "WIFI_CONNECT"]_vars

\* C12 witness: the device was updated from ota_0 to ota_1, association
\* failed in the health check, and it has rebooted into ota_0.
C12_Witness ==
    /\ Happened(ev, "rollback", "FAIL")
    /\ state = "BOOT"
    /\ running = "ota_0"
    /\ img_state["ota_1"] = "invalid"

\* Some reset of the device.
WasReset(events) ==
    \E why \in {"abort", "esp_restart", "rollback"} : Happened(events, "reset", why)

TableTransition ==
    \/ /\ state = "BOOT" /\ state' \in {"HEALTH_CHECK", "WIFI_CONNECT"}
    \/ /\ state = "WIFI_CONNECT" /\ state' = "IDLE" /\ wr = "OK"
    \/ /\ state = "WIFI_CONNECT" /\ state' = "AP_PORTAL"
       /\ wr \in {"NO_CREDENTIALS", "FAIL", "TIMEOUT"}
    \/ /\ state = "AP_PORTAL" /\ state' = "WIFI_CONNECT" /\ got_creds
    \/ /\ state = "IDLE" /\ state' \in {"CHECK_UPDATE", "WIFI_CONNECT"}
    \/ /\ state = "CHECK_UPDATE" /\ state' = "IDLE"
       /\ (Happened(ev', "check", "NO_UPDATE") \/ Happened(ev', "check", "ERROR"))
    \/ /\ state = "CHECK_UPDATE" /\ state' = "DOWNLOAD"
       /\ Happened(ev', "check", "AVAILABLE")
    \/ /\ state = "DOWNLOAD" /\ state' = "VERIFY" /\ ret = "OK"
    \/ /\ state = "DOWNLOAD" /\ state' = "IDLE" /\ ret \in {"FAIL", "TIMEOUT"}
    \/ /\ state = "VERIFY" /\ state' = "APPLY" /\ Happened(ev', "verify", "true")
    \/ /\ state = "VERIFY" /\ state' = "IDLE" /\ Happened(ev', "verify", "false")
    \/ /\ state = "APPLY" /\ state' = "BOOT" /\ Happened(ev', "reset", "esp_restart")
    \/ /\ state = "APPLY" /\ state' = "IDLE" /\ Happened(ev', "apply", "false")
    \/ /\ state = "HEALTH_CHECK" /\ state' = "IDLE" /\ Commit(ev')
    \/ /\ state = "HEALTH_CHECK" /\ state' = "BOOT" /\ Rollback(ev')

\* C14: every change of the supervisor's state is a transition of the
\* specification's table, with the reboot of APPLY and of HEALTH_CHECK
\* restarting the supervisor in BOOT.
C14_OnlyTableTransitions ==
    [][state' # state => TableTransition]_vars

\* C15: an IDLE iteration that finds the link lost and the update check due
\* goes to WIFI_CONNECT, not to CHECK_UPDATE.
C15_LinkLossBeforeUpdateCheck ==
    [][(AtLoop("IDLE") /\ ~s_connected /\ ota_age >= OTA_CHECK_INTERVAL_MS
          /\ state' # state)
         => state' = "WIFI_CONNECT"]_vars

\* check_update has just returned.
Checked(events) ==
    \E r \in {"ERROR", "NO_UPDATE", "AVAILABLE"} : Happened(events, "check", r)

\* C16: a heartbeat is sent only by a step of IDLE, check_update is called
\* only by a step of CHECK_UPDATE, and neither happens while a session is
\* active or a partition writer is open.
C16_NoTelemetryDuringSession ==
    [][/\ Happened(ev', "heartbeat", "sent") =>
              (AtLoop("IDLE") /\ ~s_download_active /\ ota_handles = {})
       /\ Checked(ev') =>
              (AtLoop("CHECK_UPDATE") /\ ~s_download_active /\ ota_handles = {})]_vars

\* C16 witness: a heartbeat sent after a session that wrote its partition
\* has ended.
C16_Witness ==
    /\ Happened(ev, "heartbeat", "sent")
    /\ flash[OtherSlot(running)] # << >>
    /\ ~s_download_active

\* C17: under fair scheduling of the supervisor the device is, again and
\* again, in IDLE or just rebooted by apply or by rollback.
C17_ReachesIdleOrReboot ==
    []<>(state = "IDLE" \/ Happened(ev, "reset", "esp_restart") \/ Rollback(ev))

\* C18: the only resets of the device are the restart after a successful
\* apply and the rollback-and-reboot of HEALTH_CHECK; no error aborts the
\* firmware.
C18_ResetsOnlyByApplyOrRollback ==
    [][WasReset(ev') =>
          \/ (state = "APPLY" /\ Happened(ev', "reset", "esp_restart"))
          \/ (state = "HEALTH_CHECK" /\ Rollback(ev'))]_vars

\* C19: a radio-driver error inside connect (credentials loaded, the radio
\* not brought to the wait) makes connect return FAIL, and on FAIL the
\* supervisor moves from WIFI_CONNECT to AP_PORTAL.
C19_DriverErrorReturnsFail ==
    [][/\ (pc = "wc_entry" /\ ~Happened(ev', "connect", "NO_CREDENTIALS")
           /\ pc' # "wc_clear") =>
             /\ pc' = "wc_ret"
             /\ wr' = "FAIL"
             /\ Happened(ev', "connect", "FAIL")
             /\ state' = state
       /\ (state = "WIFI_CONNECT" /\ pc = "wc_ret" /\ wr = "FAIL" /\ pc' # pc) =>
             state' = "AP_PORTAL"]_vars

\* C20: at the step on which connect returns OK, is_connected() is true.
C20_OkImpliesConnected ==
    [][(pc = "wc_wait" /\ Happened(ev', "connect", "OK")) =>
          (pc' = "wc_ret" /\ wr' = "OK" /\ s_connected')]_vars

\* C21: connect never returns TIMEOUT for an attempt in which the driver's
\* callback set STA_CONNECTED or STA_FAILED after the radio was started.
C21_SignalledAttemptNeverTimesOut ==
    [][(pc = "wc_stop" /\ Happened(ev', "connect", "TIMEOUT")) => heard = {}]_vars

\* C22: a save of credentials that completed while the portal server was
\* running makes the supervisor leave AP_PORTAL for WIFI_CONNECT.
C22_SaveNeverLost ==
    [][(pc = "ap_stop" /\ pc' = "loop" /\ "saved" \in heard) =>
          state' = "WIFI_CONNECT"]_vars

\* C23: the portal sets PORTAL_CREDENTIALS_RECEIVED only on a request that
\* has persisted a credential pair with a non-empty SSID.
C23_FlagOnlyAfterValidSave ==
    [][(PORTAL_DONE_BIT \in bits' /\ PORTAL_DONE_BIT \notin bits) =>
          /\ HasCredentials(nvs_creds')
          /\ "saved" \in heard']_vars

\* The pairs the step just taken saved, and what it loaded.
SavedBy(events) ==
    {events[i].r : i \in {j \in 1..Len(events) : events[j].e = "save"}}
LoadedBy(events) ==
    {events[i].r : i \in {j \in 1..Len(events) : events[j].e = "load"}}

\* C24: a save followed by a load yields exactly the saved pair; an erase
\* followed by a load yields absent, and connect returns NO_CREDENTIALS.
C24_StoreIsRegister ==
    [][/\ \A sv \in SavedBy(ev), ld \in LoadedBy(ev') :
              ld = [found |-> TRUE, ssid |-> sv.ssid, pass |-> sv.pass]
       /\ \A ld \in LoadedBy(ev') :
              Happened(ev, "erase", "done") =>
                  (~ld.found /\ Happened(ev', "connect", "NO_CREDENTIALS"))]_vars

\* C25: a form-encoded pair within the length limits is extracted, decoded
\* and persisted as exactly the byte strings that were entered.
C25_FormRoundTrip ==
    [][(task = "portal_client" /\ call' \in PortalPosts /\ call'.kind = "form"
        /\ call'.w = Written /\ ev' # << >> /\ ev'[1].e = "post") =>
          /\ Happened(ev', "post", "200")
          /\ nvs_creds' = [ssid |-> call'.ssid, pass |-> call'.pass]]_vars

\* C26: download returns OK only at a genuine end of the stream, with the
\* session active, the writer open and the hasher not finalised; whenever it
\* returns FAIL no session is active and the writer is closed.
C26_OkOnlyAtEndOfData ==
    [][/\ Happened(ev', "download", "OK") =>
              /\ pc = "dl_read" /\ http_stream = << >>
              /\ s_download_active'
              /\ IsOpen(ota_handles', s_ota_handle')
              /\ s_sha_ctx'.st = "started"
       /\ Happened(ev', "download", "FAIL") =>
              /\ ~s_download_active'
              /\ ota_handles' = {}]_vars

\* C27: check_update returns ERROR whenever the response whose body it
\* parses has no body, a status other than 200, a body over 2048 bytes or a
\* body that is not JSON; NO_UPDATE when update_available is false; and
\* AVAILABLE, with UpdateInfo filled, only for a 200 response within the cap
\* whose body has update_available true.
C27_CheckValidatesResponse ==
    [][(task = "check_client" /\ pc = "client" /\ pc' = "done") =>
          LET resp == call
              sound == /\ resp.status2 = 200
                       /\ resp.content_len2 > 0 /\ resp.content_len2 <= 2048
                       /\ resp.json # "invalid"
          IN  /\ ~sound => Happened(ev', "check", "ERROR")
              /\ Happened(ev', "check", "NO_UPDATE") => resp.json = "no_update"
              /\ Happened(ev', "check", "AVAILABLE") =>
                    /\ sound /\ resp.json = "update"
                    /\ update_info'.artifact_hash
                         = strncpy(resp.hash, OTA_MAX_HASH_LEN - 1)]_vars

\* The agent task is inside wifi_manager_connect.
InConnect ==
    /\ task = "agent_task"
    /\ pc \in {"wc_entry", "wc_clear", "wc_wait", "wc_stop", "wc_ret"}

\* C28: the portal's HTTP server runs only inside the AP_PORTAL state, between
\* start_ap_portal and stop_ap_portal; every call of connect, from
\* WIFI_CONNECT and from HEALTH_CHECK, runs with the server stopped; and
\* while the firmware runs (app_main's erase of the store happens at boot,
\* before agent_task exists) the credential store is written only while the
\* server runs, so never during connect's read of it.
C28_PortalNeverDuringConnect ==
    [][/\ s_portal_http' =>
             /\ state' = "AP_PORTAL" /\ pc' \in {"ap_clear", "ap_wait", "ap_stop"}
       /\ InConnect' => (~s_portal_http' /\ state' \in {"WIFI_CONNECT", "HEALTH_CHECK"})
       /\ (nvs_creds' # nvs_creds /\ ~WasReset(ev')) =>
             (s_portal_http /\ ~InConnect)]_vars

\* connect reads, with the server stopped, credentials the portal stored.
C28_Witness ==
    /\ InConnect /\ pc = "wc_clear" /\ HasCredentials(nvs_creds)
    /\ ~s_portal_http

\* The session's partition writer is open; its hasher is started and not yet
\* finalised or freed.
OpenWriter == IsOpen(ota_handles, s_ota_handle)
LiveHasher == s_sha_ctx.st = "started"

\* C29: whenever the OTA session is active there is exactly one open
\* partition writer and one live hasher, and every step that ends the
\* session (apply, abort, a failure in download or apply) leaves neither:
\* the hasher is finalised in the step that releases the writer, not before.
C29_WriterAndHasherTogether ==
    [][/\ s_download_active' =>
             /\ Cardinality(ota_handles') = 1 /\ OpenWriter' /\ LiveHasher'
       /\ (s_download_active /\ ~s_download_active') =>
             /\ ota_handles' = {} /\ ~LiveHasher']_vars

\* A step arms a slot: the next-boot partition moves to a slot holding a new,
\* not yet booted image.
Arms == boot_part' # boot_part /\ img_state'[boot_part'] = "new"

\* The image in a slot is the one the announced artifact_hash names.
ImageVerified(slot) ==
    strcasecmp(hash_to_hex(Sha256(flash[slot]), HashLen), update_info.artifact_hash) = 0

\* C30: under the supervisor the next-boot partition is switched to the
\* downloaded slot only by apply(), and apply() is called only in APPLY, which
\* is entered only by a verify_hash that returned true, in VERIFY, which is
\* entered only by a download that returned OK: the armed image is the one
\* whose digest matched, and an image that was not verified or whose
\* verification failed is never armed.
C30_ArmedOnlyAfterVerify ==
    [][/\ Arms =>
             /\ Happened(ev', "apply", "true") /\ AtLoop("APPLY")
             /\ boot_part' = s_update_part /\ ImageVerified(s_update_part)
       /\ (\E r \in {"true", "false"} : Happened(ev', "apply", r)) => AtLoop("APPLY")
       /\ (state' = "APPLY" /\ state # "APPLY") =>
             /\ AtLoop("VERIFY") /\ Happened(ev', "verify", "true")
             /\ s_download_active' /\ ImageVerified(s_update_part)
       /\ (state' = "VERIFY" /\ state # "VERIFY") =>
             /\ state = "DOWNLOAD" /\ pc = "dl_ret" /\ ret = "OK"
       /\ Happened(ev', "verify", "false") =>
             /\ ~s_download_active' /\ boot_part' = boot_part
             /\ state' = "IDLE"]_vars

\* The verified image has been armed: the next boot is from the downloaded
\* slot, which holds the image the server announced.
C30_Witness ==
    /\ Happened(ev, "apply", "true") /\ boot_part # running
    /\ img_state[boot_part] = "new" /\ ImageVerified(boot_part)
    /\ flash[boot_part] # << >>

\* C31: check_update never reads more bytes of a response into its buffer
\* than it allocated for it, at most the 2048-byte cap and the terminator,
\* whatever the two answers are, also when the second declares another
\* length than the first.
C31_ReadFitsBuffer ==
    [][(task = "check_client" /\ pc = "client" /\ pc' = "done"
        /\ reaches_read(call)) =>
          /\ response_alloc(call) <= 2048 + 1
          /\ response_read(call) <= response_alloc(call)]_vars

\* The supervisor is in an OTA attempt: from DOWNLOAD until it goes back to
\* IDLE or restarts.
AttemptStates == {"DOWNLOAD", "VERIFY", "APPLY"}
InAttempt == task = "agent_task" /\ state \in AttemptStates

\* The terminal reports among a step's events, in order.
TerminalReports(events) ==
    SelectSeq(events, LAMBDA x : x.e = "report" /\ x.r \in {"failed", "applied"})

\* C32: every OTA attempt reports "downloading" on entering DOWNLOAD, before a
\* byte is downloaded, and then exactly one terminal report, in the step in
\* which the supervisor leaves for IDLE or for the restart: "failed" when
\* download, verification or apply failed, "applied" when apply succeeded,
\* and never both; no other step of an attempt reports anything terminal, and
\* "applied" is reported nowhere else.
C32_ReportsInOrder ==
    [][task = "agent_task" =>
         /\ Happened(ev', "report", "downloading") <=>
               (AtLoop("DOWNLOAD") /\ pc' = "dl_entry")
         /\ Happened(ev', "report", "downloading") =>
               /\ ev' = <<Ev("report", "downloading")>>
               /\ downloaded = << >> /\ http_stream = << >>
               /\ ~s_download_active
         /\ (InAttempt /\ pc # "restart" /\ state' = "IDLE") =>
               /\ TerminalReports(ev') = <<Ev("report", "failed")>>
               /\ \/ pc = "dl_ret" /\ ret # "OK"
                  \/ Happened(ev', "verify", "false")
                  \/ Happened(ev', "apply", "false")
         /\ (InAttempt /\ pc # "restart" /\ pc' = "restart") =>
               /\ TerminalReports(ev') = <<Ev("report", "applied")>>
               /\ Happened(ev', "apply", "true")
         /\ (InAttempt /\ state' \in AttemptStates /\ pc' # "restart") =>
               TerminalReports(ev') = << >>
         /\ (InAttempt /\ state' \notin AttemptStates \cup {"IDLE"}) =>
               /\ pc = "restart" /\ Happened(ev', "reset", "esp_restart")
               /\ TerminalReports(ev') = << >>
         /\ ~InAttempt =>
               /\ ~Happened(ev', "report", "applied")
               /\ Happened(ev', "report", "failed") => state = "HEALTH_CHECK"]_vars

\* An attempt that downloaded its image and failed verification has ended
\* with its one "failed" report.
C32_Witness ==
    /\ AtLoop("IDLE")
    /\ Happened(ev, "verify", "false")
    /\ TerminalReports(ev) = <<Ev("report", "failed")>>
    /\ flash[OtherSlot(running)] # << >>
====
